---- MODULE Spec2Model ----
(***************************************************************************)
(* Invoice Maker backend: the invoice preview / numbering / confirmation   *)
(* workflow of backend/app (FastAPI + SQLAlchemy on PostgreSQL).           *)
(*                                                                         *)
(* Strings that the code inspects character by character (invoice numbers, *)
(* prefixes) are sequences of one-character strings.  Money and hours are  *)
(* whole numbers: on those the Decimal -> float -> JSON -> Decimal(str())  *)
(* round trip of the preview and the NUMERIC(.., 2) columns are exact.     *)
(***************************************************************************)
EXTENDS Integers, Sequences, FiniteSets, TLC

(***************************************************************************)
(* Bounds of the model.                                                    *)
(***************************************************************************)
MaxInvoices == 2      \* Invoice rows ever inserted
MaxMessages == 5      \* ChatMessage rows up to which chat takes a message
MaxSessions == 1      \* ChatSession rows that chat creates
NumRequests == 2      \* confirmation requests that may be in flight
MaxClients  == 3      \* Client rows up to which a client is created
MaxUploads  == 2      \* calls of the storage service

(***************************************************************************)
(* Characters and decimal formatting.                                      *)
(***************************************************************************)
\* Optional[T]: None, or a value wrapped as a one-element tuple
None == <<>>

Some(x) == <<x>>

Get(o) == o[1]

DigitChars == <<"0", "1", "2", "3", "4", "5", "6", "7", "8", "9">>

\* ord('a') .. ord('z') of _get_unique_invoice_number
Letters ==
    <<"a", "b", "c", "d", "e", "f", "g", "h", "i", "j", "k", "l", "m",
      "n", "o", "p", "q", "r", "s", "t", "u", "v", "w", "x", "y", "z">>

IsDigit(ch) == \E i \in 1..10 : DigitChars[i] = ch

DigitValue(ch) == (CHOOSE i \in 1..10 : DigitChars[i] = ch) - 1

\* str(n) for n >= 0
RECURSIVE Str(_)
Str(n) == IF n < 10 THEN <<DigitChars[n + 1]>>
          ELSE Str(n \div 10) \o <<DigitChars[(n % 10) + 1]>>

\* f"{n:03d}": zero-padded to a minimum width of three
Pad3(n) == LET d == Str(n)
           IN  IF Len(d) >= 3 THEN d
               ELSE [i \in 1..(3 - Len(d)) |-> "0"] \o d

\* int(s) of a non-empty string of digits
RECURSIVE ParseInt(_)
ParseInt(s) == IF Len(s) = 0 THEN 0
          ELSE 10 * ParseInt(SubSeq(s, 1, Len(s) - 1)) + DigitValue(s[Len(s)])

\* ''.join(filter(str.isdigit, s))
RECURSIVE FilterDigits(_)
FilterDigits(s) ==
    IF Len(s) = 0 THEN <<>>
    ELSE (IF IsDigit(s[1]) THEN <<s[1]>> ELSE <<>>) \o FilterDigits(Tail(s))

\* s.split("-")[-1]: the text after the last "-" (all of s when it has none)
LastPart(s) ==
    LET dashes == {i \in 1..Len(s) : s[i] = "-"}
        last   == IF dashes = {} THEN 0
                  ELSE CHOOSE i \in dashes : \A j \in dashes : j <= i
    IN  SubSeq(s, last + 1, Len(s))

\* len(s.split("-"))
NumParts(s) == Cardinality({i \in 1..Len(s) : s[i] = "-"}) + 1

\* s[:k]
Take(s, k) == SubSeq(s, 1, IF Len(s) < k THEN Len(s) ELSE k)

StartsWith(s, p) == Len(s) >= Len(p) /\ SubSeq(s, 1, Len(p)) = p

\* f"{prefix}-{year}-"
NumberStem(prefix, year) == prefix \o <<"-">> \o Str(year) \o <<"-">>

\* The sequence number the auto mode reads out of an existing invoice number
\* (lines 201-209): -1 stands for the ValueError / short split that skips it.
SeqOf(number) ==
    LET digits == FilterDigits(Take(LastPart(number), 3))
    IN  IF NumParts(number) >= 3 /\ Len(digits) > 0 THEN ParseInt(digits) ELSE -1

Max(S) == CHOOSE m \in S : \A x \in S : x <= m

(***************************************************************************)
(* The data the model runs on.                                             *)
(***************************************************************************)
INV == <<"I", "N", "V">>                      \* the default prefix
CS  == <<"C", "S">>

Spectrio   == <<"S", "p", "e", "c", "t", "r", "i", "o">>
CodeSchool == <<"C", "o", "d", "e", " ", "S", "c", "h", "o", "o", "l">>

ClientIds  == {"c1", "c2"}
SessionIds == {"s1", "s2"}
Requests   == 1..NumRequests

Today == 2026                                  \* the year of date.today()
Times == {17}                                  \* values of int(time.time())

\* Invoice numbers that requests bring in from outside
N_INV_001 == INV \o <<"-", "2", "0", "2", "6", "-", "0", "0", "1">>
N_CS_001  == CS  \o <<"-", "2", "0", "2", "6", "-", "0", "0", "1">>

VARIABLES
    clients,     \* clients table: ClientIds -> row
    invoices,    \* invoices table (committed rows, with their hours_entries
                 \* and line_items rows)
    nextId,      \* the next fresh Invoice.id
    sessions,    \* chat_sessions table: SessionIds -> row
    messages,    \* chat_messages table: SessionIds -> rows in created_at order
    requests,    \* the confirmation requests in flight
    resp,        \* the response of the request that ended last
    s3           \* the storage settings of the process and the calls it
                 \* has made to the storage service

vars == <<clients, invoices, nextId, sessions, messages, requests, resp, s3>>

(***************************************************************************)
(* Invoice numbering (services/invoice_parser.py).                         *)
(***************************************************************************)
\* Invoice.invoice_number values in use
Numbers(db) == {inv.invoice_number : inv \in db}

_generate_invoice_number(client, year, db) ==
    LET prefix == IF client.invoice_prefix = <<>> THEN INV
                  ELSE client.invoice_prefix
        stem   == NumberStem(prefix, year)
        existing_invoices ==
            {inv \in db : /\ inv.client_id = client.id
                          /\ StartsWith(inv.invoice_number, stem)}
        seqs    == {SeqOf(inv.invoice_number) : inv \in existing_invoices}
        max_seq == Max(seqs \cup {0})
    IN  IF client.next_invoice_number # None
        THEN stem \o Pad3(Get(client.next_invoice_number))
        ELSE stem \o Pad3(max_seq + 1)

\* The letters a..z in order whose suffixed form is free
FreeLetters(base_number, db) ==
    {i \in 1..Len(Letters) : (base_number \o <<Letters[i]>>) \notin Numbers(db)}

_get_unique_invoice_number(base_number, db, now) ==
    IF base_number \notin Numbers(db) THEN base_number
    ELSE IF FreeLetters(base_number, db) # {}
         THEN LET version == CHOOSE i \in FreeLetters(base_number, db) :
                                 \A j \in FreeLetters(base_number, db) : i <= j
              IN  base_number \o <<Letters[version]>>
         ELSE base_number \o <<"-">> \o Str(now)

(***************************************************************************)
(* Client resolution (services/invoice_parser.py).  Input names hold no    *)
(* LIKE wildcard (% or _), so ILIKE is a case-insensitive comparison.      *)
(***************************************************************************)
UpperLetters ==
    <<"A", "B", "C", "D", "E", "F", "G", "H", "I", "J", "K", "L", "M",
      "N", "O", "P", "Q", "R", "S", "T", "U", "V", "W", "X", "Y", "Z">>

LowerChar(ch) ==
    IF \E i \in 1..26 : UpperLetters[i] = ch
    THEN Letters[CHOOSE i \in 1..26 : UpperLetters[i] = ch]
    ELSE ch

\* str.lower()
Lower(s) == [i \in 1..Len(s) |-> LowerChar(s[i])]

\* str.strip() (the only whitespace of the model is the blank)
RECURSIVE Strip(_)
Strip(s) ==
    IF Len(s) = 0 THEN s
    ELSE IF s[1] = " " THEN Strip(Tail(s))
    ELSE IF s[Len(s)] = " " THEN Strip(SubSeq(s, 1, Len(s) - 1))
    ELSE s

\* sub in s
Contains(s, sub) ==
    \E i \in 0..(Len(s) - Len(sub)) : SubSeq(s, i + 1, i + Len(sub)) = sub

\* The suffix patterns in the order the code applies them; the second field
\* tells whether the pattern ends in \.?
Suffixes ==
    << [word |-> <<"l", "l", "c">>, dot |-> TRUE],
       [word |-> <<"i", "n", "c">>, dot |-> TRUE],
       [word |-> <<"c", "o", "r", "p">>, dot |-> TRUE],
       [word |-> <<"c", "o", "r", "p", "o", "r", "a", "t", "i", "o", "n">>,
        dot |-> FALSE],
       [word |-> <<"l", "t", "d">>, dot |-> TRUE],
       [word |-> <<"l", "i", "m", "i", "t", "e", "d">>, dot |-> FALSE],
       [word |-> <<"c", "o">>, dot |-> TRUE],
       [word |-> <<"c", "o", "m", "p", "a", "n", "y">>, dot |-> FALSE],
       [word |-> <<"l", "p">>, dot |-> FALSE],
       [word |-> <<"l", "l", "p">>, dot |-> FALSE],
       [word |-> <<"p", "c">>, dot |-> FALSE],
       [word |-> <<"p", "l", "l", "c">>, dot |-> FALSE] >>

\* s without its trailing blanks
RECURSIVE RStrip(_)
RStrip(s) ==
    IF Len(s) > 0 /\ s[Len(s)] = " " THEN RStrip(SubSeq(s, 1, Len(s) - 1))
    ELSE s

\* re.sub(r'\s+WORD\.?$', '', s, flags=re.IGNORECASE)
StripSuffix(s, suffix) ==
    LET body == IF suffix.dot /\ Len(s) > 0 /\ s[Len(s)] = "."
                   /\ Len(s) - 1 >= Len(suffix.word)
                   /\ Lower(SubSeq(s, Len(s) - Len(suffix.word), Len(s) - 1))
                          = suffix.word
                THEN SubSeq(s, 1, Len(s) - 1)
                ELSE s
        n    == Len(body) - Len(suffix.word)
    IN  IF /\ n >= 1
           /\ Lower(SubSeq(body, n + 1, Len(body))) = suffix.word
           /\ body[n] = " "
        THEN RStrip(SubSeq(body, 1, n))
        ELSE s

RECURSIVE StripSuffixes(_, _)
StripSuffixes(s, k) ==
    IF k > Len(Suffixes) THEN s
    ELSE StripSuffixes(StripSuffix(s, Suffixes[k]), k + 1)

_normalize_client_name(name) == Strip(StripSuffixes(Strip(name), 1))

\* query.first(): the first row, in storage order, among the rows hit
FirstClient(order, hits) ==
    IF hits = {} THEN None
    ELSE Some(order[CHOOSE i \in hits : \A j \in hits : i <= j])

\* A resolution that would try the partial match before the exact one
_find_or_suggest_client_partial_first(client_name, roster, order) ==
    LET rows == 1..Len(order)
        partial_hits ==
            {i \in rows : Contains(Lower(roster[order[i]].name),
                                   Lower(client_name))}
    IN  IF client_name = <<>> THEN None
        ELSE FirstClient(order, partial_hits)

\* Returns the id of the client found, or None
_find_or_suggest_client(client_name, roster, order) ==
    LET exact(c)   == Lower(c.name) = Lower(client_name)
        partial(c) == Contains(Lower(c.name), Lower(client_name))
        normalized_input == Lower(_normalize_client_name(client_name))
        normalized(c) ==
            LET normalized_db == Lower(_normalize_client_name(c.name))
            IN  \/ normalized_input = normalized_db
                \/ Contains(normalized_db, normalized_input)
                \/ Contains(normalized_input, normalized_db)
        rows == 1..Len(order)
        exact_hits      == {i \in rows : exact(roster[order[i]])}
        partial_hits    == {i \in rows : partial(roster[order[i]])}
        normalized_hits == {i \in rows : normalized(roster[order[i]])}
    IN  IF client_name = <<>> THEN None
        ELSE IF exact_hits # {} THEN FirstClient(order, exact_hits)
        ELSE IF partial_hits # {} THEN FirstClient(order, partial_hits)
        ELSE FirstClient(order, normalized_hits)

(***************************************************************************)
(* Totals and the Preview Builder.                                         *)
(***************************************************************************)
\* sum(...) of a sequence of numbers
RECURSIVE Sum(_)
Sum(seq) == IF Len(seq) = 0 THEN 0 ELSE seq[1] + Sum(Tail(seq))

\* api/invoices.py
calculate_invoice_total(hours_entries, line_items) ==
    LET hours_total ==
            Sum([i \in 1..Len(hours_entries) |->
                    hours_entries[i].hours * hours_entries[i].rate])
        items_total ==
            Sum([i \in 1..Len(line_items) |-> line_items[i].amount])
    IN  hours_total + items_total

\* An absent key of the oracle's dict is None; dict.get(key, default)
GetOr(o, default) == IF o = None THEN default ELSE Get(o)

\* A builder that would bill every entry at the client's rate
ClientRate(entry, client) == client.default_rate

\* invoice_parser.py 265: entry.get("rate", client.default_rate)
EntryRate(entry, client) == GetOr(entry.rate, client.default_rate)

_build_invoice_preview(invoice_data, client, db) ==
    LET invoice_type == GetOr(invoice_data.invoice_type, client.template_type)
        invoice_date == GetOr(invoice_data.date, Today)
        invoice_number ==
            IF invoice_data.invoice_number = None
            THEN _generate_invoice_number(client, invoice_date, db)
            ELSE Get(invoice_data.invoice_number)
        hours_entries ==
            IF invoice_type = "hourly"
            THEN [i \in 1..Len(invoice_data.hours_entries) |->
                    LET entry == invoice_data.hours_entries[i]
                        rate  == EntryRate(entry, client)
                    IN  [hours |-> entry.hours, rate |-> rate,
                         amount |-> entry.hours * rate]]
            ELSE <<>>
        line_items ==
            IF invoice_type = "hourly" THEN <<>>
            ELSE [i \in 1..Len(invoice_data.line_items) |->
                    LET item     == invoice_data.line_items[i]
                        quantity == GetOr(item.quantity, 1)
                    IN  [quantity |-> quantity, rate |-> item.rate,
                         amount |-> quantity * item.rate]]
    IN  [client_id      |-> client.id,
         client_name    |-> client.name,
         invoice_number |-> invoice_number,
         invoice_type   |-> invoice_type,
         date           |-> invoice_date,
         hours_entries  |-> hours_entries,
         line_items     |-> line_items,
         total_amount   |->
             Sum([i \in 1..Len(hours_entries) |-> hours_entries[i].amount])
             + Sum([i \in 1..Len(line_items) |-> line_items[i].amount]),
         invoice_id     |-> None,
         pdf_url        |-> None]

(***************************************************************************)
(* Inputs: what the oracle and the HTTP clients send.                      *)
(***************************************************************************)
Acme == <<"A", "c", "m", "e">>

SpectrioLLC == <<"s", "p", "e", "c", "t", "r", "i", "o", " ", "l", "l", "c">>

OracleDrafts ==
    { [client_name |-> SpectrioLLC, invoice_type |-> None, date |-> None,
       invoice_number |-> None,
       hours_entries |-> <<[hours |-> 8, rate |-> Some(100)],
                           [hours |-> 4, rate |-> None]>>,
       line_items |-> <<>>],
      [client_name |-> CodeSchool, invoice_type |-> None, date |-> None,
       invoice_number |-> None, hours_entries |-> <<>>,
       line_items |-> <<[quantity |-> None, rate |-> 500]>>],
      [client_name |-> Spectrio, invoice_type |-> Some("project"),
       date |-> Some(2025), invoice_number |-> None, hours_entries |-> <<>>,
       line_items |-> <<[quantity |-> Some(2), rate |-> 50]>>],
      [client_name |-> CodeSchool, invoice_type |-> None, date |-> None,
       invoice_number |-> Some(N_INV_001), hours_entries |-> <<>>,
       line_items |-> <<[quantity |-> None, rate |-> 500]>>],
      [client_name |-> Acme, invoice_type |-> Some("hourly"), date |-> None,
       invoice_number |-> None, hours_entries |-> <<>>,
       line_items |-> <<>>] }

\* What ai_service.extract_invoice_data returns ("raise": the call raises)
Extractions ==
    {[status |-> "ready", invoice_data |-> Some(d), question |-> None] :
        d \in OracleDrafts}
    \cup {[status |-> st, invoice_data |-> None, question |-> None] :
            st \in {"clarification_needed", "unknown", "raise"}}

\* extraction.get("invoice_data", {}): a draft without any key
EmptyDict ==
    [client_name |-> <<>>, invoice_type |-> None, date |-> None,
     invoice_number |-> None, hours_entries |-> <<>>, line_items |-> <<>>]

(***************************************************************************)
(* ai_service.py: the text of the oracle and its parsing.  A text is a     *)
(* sequence of lexemes: the braces and brackets, a number, the members of  *)
(* an object, and words of prose.                                          *)
(***************************************************************************)
JsonMembers ==
    {"status:ready", "status:clarification_needed", "status:done",
     "question:Which client?", "invoice_data:spectrio", "invoice_data:acme"}

JSONDecodeError ==
    [type |-> "JSONDecodeError", status |-> None, question |-> None,
     invoice_data |-> None]

\* json.loads of a str: the value of the text, or JSONDecodeError
json_loads(text) ==
    LET n == Len(text)
        members == {text[i] : i \in 2..(n - 1)}
        NotADict(type) == [JSONDecodeError EXCEPT !.type = type]
    IN  IF text = <<"7">> THEN NotADict("int")
        ELSE IF text = <<"[", "]">> THEN NotADict("list")
        ELSE IF /\ n >= 2
                /\ text[1] = "{"
                /\ text[n] = "}"
                /\ members \subseteq JsonMembers
        THEN [type |-> "dict",
              status |->
                  IF "status:ready" \in members THEN Some("ready")
                  ELSE IF "status:clarification_needed" \in members
                  THEN Some("clarification_needed")
                  ELSE IF "status:done" \in members THEN Some("done")
                  ELSE None,
              question |->
                  IF "question:Which client?" \in members
                  THEN Some(<<"Which client?">>)
                  ELSE None,
              invoice_data |->
                  IF "invoice_data:spectrio" \in members
                  THEN Some(CHOOSE d \in OracleDrafts :
                              d.client_name = SpectrioLLC)
                  ELSE IF "invoice_data:acme" \in members
                  THEN Some(CHOOSE d \in OracleDrafts : d.client_name = Acme)
                  ELSE None]
        ELSE JSONDecodeError

\* response.find("{") and response.rfind("}"), counted from 1; 0: not found
Find(text, lexeme) ==
    LET at == {i \in 1..Len(text) : text[i] = lexeme}
    IN  IF at = {} THEN 0 ELSE CHOOSE i \in at : \A j \in at : i <= j

RFind(text, lexeme) ==
    LET at == {i \in 1..Len(text) : text[i] = lexeme}
    IN  IF at = {} THEN 0 ELSE CHOOSE i \in at : \A j \in at : i >= j

\* ai_service.py 280-304
_parse_extraction_response(response) ==
    LET direct == json_loads(response)
        start == Find(response, "{")
        end == RFind(response, "}")
        json_str == SubSeq(response, start, end)
    IN  IF direct.type # "JSONDecodeError" THEN direct
        ELSE IF /\ start # 0
                /\ end > start
                /\ json_loads(json_str).type # "JSONDecodeError"
        THEN json_loads(json_str)
        ELSE [type |-> "dict", status |-> Some("clarification_needed"),
              question |-> Some(response), invoice_data |-> None]

\* What the completion call hands back: the content of the first choice,
\* which can be missing
OracleTexts ==
    { <<>>,
      <<"Which", "client", "is", "this", "for?">>,
      <<"{", "oops", "}">>,
      <<"Sure:", "{", "status:ready">>,
      <<"Here", "you", "go:", "{", "status:clarification_needed",
        "question:Which client?", "}", "Anything", "else?">>,
      <<"[", "]">>,
      <<"7">>,
      <<"{", "status:done", "}">>,
      <<"{", "}">>,
      <<"{", "status:clarification_needed", "}">>,
      <<"{", "status:clarification_needed", "question:Which client?", "}">>,
      <<"{", "status:ready", "invoice_data:spectrio", "}">>,
      <<"{", "status:ready", "invoice_data:acme", "}">>,
      <<"{", "status:ready", "}">> }

OracleResponses == {None} \cup {Some(text) : text \in OracleTexts}

\* ai_service.py 57-129 and invoice_parser.py 45-68: the extraction the
\* chat handler works with.  json.loads(None) raises TypeError, and a value
\* that is no dict raises AttributeError at extraction.get: "raise"
extract_invoice_data(content) ==
    LET parsed == _parse_extraction_response(Get(content))
        Raise == [status |-> "raise", invoice_data |-> None,
                  question |-> None]
    IN  IF content = None THEN Raise
        ELSE IF parsed.type # "dict" THEN Raise
        ELSE [status |-> GetOr(parsed.status, "None"),
              invoice_data |-> parsed.invoice_data,
              question |-> parsed.question]

Bill == <<"b", "i", "l", "l">>

Yes  == <<" ", "Y", "e", "s", " ">>

Contents == {Bill, Yes}

ConfirmWords ==
    { <<"c", "o", "n", "f", "i", "r", "m">>, <<"y", "e", "s">>,
      <<"c", "r", "e", "a", "t", "e">>,
      <<"g", "e", "n", "e", "r", "a", "t", "e">>, <<"o", "k">> }

\* A test that would take the content as it was typed
IsConfirmationVerbatim(content) == content \in ConfirmWords

\* message.content.lower().strip() in [...]
IsConfirmation(content) == Strip(Lower(content)) \in ConfirmWords

\* The five phrases as users type them, in several cases and with blanks
ConfirmPhrases ==
    { <<"c", "o", "n", "f", "i", "r", "m">>, Yes, <<" ", "O", "K", " ">>,
      <<"C", "R", "E", "A", "T", "E">>,
      <<"G", "e", "n", "e", "r", "a", "t", "e", " ">> }

\* A message that starts with a phrase but is not one
YesPlease == <<"y", "e", "s", " ", "p", "l", "e", "a", "s", "e">>

Phrases == ConfirmPhrases \cup {YesPlease, Bill}

\* InvoiceCreate payloads of POST /api/invoices
DirectInvoices ==
    { [client_id |-> "c1", invoice_number |-> N_CS_001,
       hours_entries |-> <<[hours |-> 8, rate |-> 100]>>, line_items |-> <<>>],
      [client_id |-> "c2", invoice_number |-> N_INV_001, hours_entries |-> <<>>,
       line_items |-> <<[quantity |-> 1, rate |-> 500]>>],
      [client_id |-> "c9", invoice_number |-> N_INV_001, hours_entries |-> <<>>,
       line_items |-> <<>>] }

\* InvoiceUpdate payloads of PUT /api/invoices/{id} (None: field not set)
InvoiceUpdates ==
    { [invoice_number |-> Some(N_INV_001), status |-> None],
      [invoice_number |-> None, status |-> Some("sent")] }

\* Preview dicts of POST /sessions/{id}/set-preview-data: what the page
\* sends is what its user made of a preview
ClientPreviews ==
    { [client_id |-> "c1", client_name |-> Spectrio,
       invoice_number |-> N_CS_001, invoice_type |-> "hourly", date |-> Today,
       hours_entries |-> <<[hours |-> 1, rate |-> 100, amount |-> 100]>>,
       line_items |-> <<>>, total_amount |-> 999, invoice_id |-> None,
       pdf_url |-> None] }

(***************************************************************************)
(* Rows, messages and responses.                                           *)
(***************************************************************************)
\* The storage order of the clients table (query .first() / .all())
ClientOrder == <<"c1", "c2">>

SessionOrder == <<"s1", "s2">>

NewChat == <<"New Chat">>

UserMessage(content) ==
    [role |-> "user", content |-> content, has_preview |-> FALSE,
     preview_json |-> None]

AssistantMessage(content) ==
    [role |-> "assistant", content |-> content, has_preview |-> FALSE,
     preview_json |-> None]

PreviewMessage(content, preview) ==
    [role |-> "assistant", content |-> content, has_preview |-> TRUE,
     preview_json |-> Some(preview)]

Response(status, message, session_id, invoice_id) ==
    [status |-> status, message |-> message, session_id |-> session_id,
     invoice_id |-> invoice_id, suggested_client |-> None]

\* An exception that no handler catches: the framework answers 500
Unhandled(session_id) == Response("unhandled", <<"Internal Server Error">>,
                                  session_id, None)

IdleRequest ==
    [pc |-> "idle", session |-> "", preview |-> None, unique_number |-> <<>>,
     invoice |-> None, counter |-> None]

\* Rows that requests in flight will still add
ReservedIds == Cardinality({r \in Requests : requests[r].pc = "checked"})

TotalMessages ==
    Sum([i \in 1..Len(SessionOrder) |-> Len(messages[SessionOrder[i]])])

RoomForMessages(n) == TotalMessages + n <= MaxMessages

RoomForInvoice == nextId + ReservedIds <= MaxInvoices

\* A constraint that would not see the rows of open transactions
NoPendingNumbers == {}

\* Numbers of rows that are flushed in a transaction not yet committed
PendingNumbers ==
    {Get(requests[r].invoice).invoice_number :
        r \in {q \in Requests : requests[q].pc = "flushed"}}

\* A ledger without the constraint
NoUniqueConstraint(invoice_number) == FALSE

\* Invoice.invoice_number is unique=True (models/invoice.py): an INSERT or
\* UPDATE of a number that a committed row holds, or that a row of an open
\* transaction holds (the statement waits for that commit), fails.
UniqueViolation(invoice_number) ==
    invoice_number \in Numbers(invoices) \cup PendingNumbers

\* The clients table: two of the seeded clients as the clients API has
\* configured them.  Spectrio counts its invoices by hand and has an empty
\* prefix, Code School has a prefix of its own and lets the ledger decide
Roster ==
    [c \in ClientIds |->
       IF c = "c1"
       THEN [id |-> "c1", name |-> Spectrio, default_rate |-> 100,
             template_type |-> "hourly", invoice_prefix |-> <<>>,
             next_invoice_number |-> Some(1)]
       ELSE [id |-> "c2", name |-> CodeSchool, default_rate |-> 500,
             template_type |-> "tuition", invoice_prefix |-> CS,
             next_invoice_number |-> None]]

\* config.py 32-34: a process started without the storage variables
NoStorage ==
    [aws_access_key_id |-> None, aws_secret_access_key |-> None,
     aws_s3_bucket |-> None, calls |-> <<>>]

Init ==
    /\ clients = Roster
    /\ invoices = {}
    /\ nextId = 1
    /\ sessions = <<>>
    /\ messages = [s \in SessionIds |-> <<>>]
    /\ requests = [r \in Requests |-> IdleRequest]
    /\ resp = Response("none", <<"">>, "", None)
    /\ s3 = NoStorage

(***************************************************************************)
(* api/invoices.py: the direct operations on the ledger.                   *)
(***************************************************************************)
create_invoice(invoice) ==
    /\ UNCHANGED s3
    /\ RoomForInvoice
    /\ UNCHANGED <<clients, sessions, messages, requests, resp>>
    /\ IF invoice.client_id \notin ClientIds
       THEN UNCHANGED <<invoices, nextId>>
       ELSE IF invoice.invoice_number \in Numbers(invoices)
       THEN UNCHANGED <<invoices, nextId>>
       ELSE IF UniqueViolation(invoice.invoice_number)
       THEN UNCHANGED <<invoices, nextId>>
       ELSE LET line_items ==
                    [i \in 1..Len(invoice.line_items) |->
                       [quantity |-> invoice.line_items[i].quantity,
                        rate     |-> invoice.line_items[i].rate,
                        amount   |-> invoice.line_items[i].quantity
                                     * invoice.line_items[i].rate]]
                db_invoice ==
                    [id |-> nextId, client_id |-> invoice.client_id,
                     session_id |-> None,
                     invoice_number |-> invoice.invoice_number,
                     date |-> Today,
                     total_amount |->
                         calculate_invoice_total(invoice.hours_entries,
                                                 line_items),
                     status |-> "draft", pdf_path |-> None,
                     hours_entries |-> invoice.hours_entries,
                     line_items |-> line_items]
            IN  /\ invoices' = invoices \cup {db_invoice}
                /\ nextId' = nextId + 1

update_invoice(invoice_id, invoice_update) ==
    /\ UNCHANGED s3
    /\ UNCHANGED <<clients, nextId, sessions, messages, requests, resp>>
    /\ IF \A inv \in invoices : inv.id # invoice_id
       THEN UNCHANGED invoices
       ELSE LET invoice == CHOOSE inv \in invoices : inv.id = invoice_id
                renumber ==
                    /\ invoice_update.invoice_number # None
                    /\ Get(invoice_update.invoice_number)
                         # invoice.invoice_number
                updated ==
                    [invoice EXCEPT
                       !.invoice_number =
                           GetOr(invoice_update.invoice_number, @),
                       !.status = GetOr(invoice_update.status, @)]
            IN  IF renumber /\ Get(invoice_update.invoice_number)
                                  \in Numbers(invoices)
                THEN UNCHANGED invoices
                ELSE IF renumber
                        /\ UniqueViolation(Get(invoice_update.invoice_number))
                THEN UNCHANGED invoices
                ELSE /\ invoices' = (invoices \ {invoice}) \cup {updated}

delete_invoice(invoice_id) ==
    /\ UNCHANGED s3
    /\ UNCHANGED <<clients, nextId, sessions, messages, requests, resp>>
    /\ IF \A inv \in invoices : inv.id # invoice_id
       THEN UNCHANGED invoices
       ELSE /\ invoices' = {inv \in invoices : inv.id # invoice_id}

(***************************************************************************)
(* api/chat.py: the preview slot of a session.                             *)
(***************************************************************************)
set_preview_data(session_id, preview) ==
    /\ UNCHANGED s3
    /\ sessions' =
         IF session_id \notin DOMAIN sessions THEN sessions
         ELSE [sessions EXCEPT
                 ![session_id].invoice_preview_json = Some(preview)]
    /\ UNCHANGED <<clients, invoices, nextId, messages, requests, resp>>

\* A promotion that would take whatever the row carries, from any message
set_preview_version_unfiltered(session_id, message_session, i) ==
    /\ UNCHANGED s3
    /\ UNCHANGED <<clients, invoices, nextId, messages, requests>>
    /\ IF session_id \notin DOMAIN sessions
       THEN /\ resp' = Response("404", <<"Session not found">>, session_id,
                                None)
            /\ UNCHANGED sessions
       ELSE IF \/ message_session \notin DOMAIN messages
               \/ i > Len(messages[message_session])
       THEN /\ resp' = Response("404", <<"Preview not found">>, session_id,
                                None)
            /\ UNCHANGED sessions
       ELSE /\ sessions' =
                 [sessions EXCEPT
                    ![session_id].invoice_preview_json =
                        messages[message_session][i].preview_json]
            /\ resp' = Response("200", <<"Preview restored">>, session_id,
                                None)

\* A promotion that would keep the seal of the preview it replaces
set_preview_version_sealed(session_id, message_session, i) ==
    /\ UNCHANGED s3
    /\ UNCHANGED <<clients, invoices, nextId, messages, requests>>
    /\ IF session_id \notin DOMAIN sessions
       THEN /\ resp' = Response("404", <<"Session not found">>, session_id,
                                None)
            /\ UNCHANGED sessions
       ELSE IF \/ message_session # session_id
               \/ i > Len(messages[session_id])
               \/ ~messages[session_id][i].has_preview
               \/ messages[session_id][i].preview_json = None
       THEN /\ resp' = Response("404", <<"Preview not found">>, session_id,
                                None)
            /\ UNCHANGED sessions
       ELSE /\ sessions' =
                 [sessions EXCEPT
                    ![session_id].invoice_preview_json =
                        IF sessions[session_id].invoice_preview_json = None
                        THEN messages[session_id][i].preview_json
                        ELSE Some([Get(messages[session_id][i].preview_json)
                                     EXCEPT !.invoice_id =
                                         Get(sessions[session_id]
                                               .invoice_preview_json)
                                           .invoice_id])]
            /\ resp' = Response("200", <<"Preview restored">>, session_id,
                                None)

\* chat.py 307-343.  message_id names the i-th message of session
\* message_session
set_preview_version(session_id, message_session, i) ==
    /\ UNCHANGED s3
    /\ UNCHANGED <<clients, invoices, nextId, messages, requests>>
    /\ IF session_id \notin DOMAIN sessions
       THEN /\ resp' = Response("404", <<"Session not found">>, session_id,
                                None)
            /\ UNCHANGED sessions
       ELSE IF \/ message_session # session_id
               \/ i > Len(messages[session_id])
               \/ ~messages[session_id][i].has_preview
               \/ messages[session_id][i].preview_json = None
       THEN /\ resp' = Response("404", <<"Preview not found">>, session_id,
                                None)
            /\ UNCHANGED sessions
       ELSE /\ sessions' =
                 [sessions EXCEPT
                    ![session_id].invoice_preview_json =
                        messages[session_id][i].preview_json]
            /\ resp' = Response("200", <<"Preview restored">>, session_id,
                                None)

(***************************************************************************)
(* api/chat.py _confirm_invoice and                                        *)
(* services/invoice_parser.py create_invoice_from_preview, step by step:   *)
(* the uniqueness check, the INSERT (flush), the COMMIT, and the rendering *)
(* that follows the commit.  Other requests run between the steps.         *)
(***************************************************************************)
AlreadyCreated == <<"Invoice was already created. You can download it below.">>

\* The request slot a new confirmation runs in
IdleRequests == {r \in Requests : requests[r].pc = "idle"}
FreeRequest == CHOOSE r \in IdleRequests : \A q \in IdleRequests : r <= q

\* A confirmation that does not look for the invoice_id of the preview
_confirm_invoice_resealing(session_id) ==
    LET preview == Get(sessions[session_id].invoice_preview_json)
    IN  /\ IdleRequests # {}
        /\ RoomForInvoice
        /\ \E now \in Times :
             requests' =
               [requests EXCEPT
                  ![FreeRequest] =
                     [pc |-> "checked", session |-> session_id,
                      preview |-> Some(preview),
                      unique_number |->
                          _get_unique_invoice_number(
                              preview.invoice_number, invoices, now),
                      invoice |-> None, counter |-> None]]
        /\ UNCHANGED resp

\* Lines 547-566 and invoice_parser.py 324-325: the sealed short-circuit,
\* otherwise the read of the ledger that picks the number to insert
_confirm_invoice(session_id) ==
    LET preview == Get(sessions[session_id].invoice_preview_json)
    IN  IF preview.invoice_id # None
        THEN /\ resp' = Response("invoice_created", AlreadyCreated,
                                 session_id, preview.invoice_id)
             /\ UNCHANGED requests
        ELSE /\ IdleRequests # {}
             /\ RoomForInvoice
             /\ \E now \in Times :
                  requests' =
                    [requests EXCEPT
                       ![FreeRequest] =
                          [pc |-> "checked", session |-> session_id,
                           preview |-> Some(preview),
                           unique_number |->
                               _get_unique_invoice_number(
                                   preview.invoice_number, invoices, now),
                           invoice |-> None, counter |-> None]]
             /\ UNCHANGED resp

confirm_invoice(session_id) ==
    /\ UNCHANGED s3
    /\ UNCHANGED <<clients, invoices, nextId, sessions, messages>>
    /\ IF session_id \notin DOMAIN sessions
       THEN /\ resp' = Response("404", <<"Session not found">>, session_id,
                                None)
            /\ UNCHANGED requests
       ELSE IF sessions[session_id].invoice_preview_json = None
       THEN /\ resp' = Response("400", <<"No invoice preview to confirm">>,
                                session_id, None)
            /\ UNCHANGED requests
       ELSE _confirm_invoice(session_id)

\* invoice_parser.py 328-366: INSERT the invoice and its entries, read the
\* client's counter.  A failed flush leaves the Session unusable, so the
\* handler's own commit (chat.py 644) raises and nothing is stored.
create_invoice_from_preview(r) ==
    LET request == requests[r]
        preview == Get(request.preview)
        invoice ==
            [id |-> nextId, client_id |-> preview.client_id,
             session_id |-> Some(request.session),
             invoice_number |-> request.unique_number,
             date |-> preview.date,
             total_amount |-> preview.total_amount,
             status |-> "draft", pdf_path |-> None,
             hours_entries |->
                 [i \in 1..Len(preview.hours_entries) |->
                    [hours |-> preview.hours_entries[i].hours,
                     rate  |-> preview.hours_entries[i].rate]],
             line_items |->
                 [i \in 1..Len(preview.line_items) |->
                    [quantity |-> preview.line_items[i].quantity,
                     rate     |-> preview.line_items[i].rate,
                     amount   |-> preview.line_items[i].amount]]]
    IN  /\ UNCHANGED s3
        /\ request.pc = "checked"
        /\ UNCHANGED <<clients, invoices, sessions, messages>>
        /\ IF UniqueViolation(request.unique_number)
           THEN /\ requests' = [requests EXCEPT ![r] = IdleRequest]
                /\ resp' = Unhandled(request.session)
                /\ UNCHANGED nextId
           ELSE /\ requests' =
                      [requests EXCEPT
                         ![r].pc = "flushed",
                         ![r].invoice = Some(invoice),
                         ![r].counter =
                             clients[preview.client_id].next_invoice_number]
                /\ nextId' = nextId + 1
                /\ UNCHANGED resp

\* A commit that would advance the counter only for an invoice numbered
\* from its current value
db_commit_own_number(r) ==
    LET request == requests[r]
        invoice == Get(request.invoice)
        client == clients[invoice.client_id]
        own == /\ client.next_invoice_number # None
               /\ invoice.invoice_number
                    = _generate_invoice_number(client, invoice.date, invoices)
    IN  /\ UNCHANGED s3
        /\ request.pc = "flushed"
        /\ invoices' = invoices \cup {invoice}
        /\ clients' =
             IF ~own THEN clients
             ELSE [clients EXCEPT
                     ![invoice.client_id].next_invoice_number =
                         Some(Get(request.counter) + 1)]
        /\ messages' =
             [messages EXCEPT
                ![request.session] =
                    Append(@, UserMessage(<<"Generate PDF">>))]
        /\ requests' = [requests EXCEPT ![r].pc = "committed"]
        /\ UNCHANGED <<nextId, sessions, resp>>

\* invoice_parser.py 366-370 with chat.py 568-574: the COMMIT stores the
\* invoice, the counter computed from the value read, and "Generate PDF"
db_commit(r) ==
    LET request == requests[r]
        invoice == Get(request.invoice)
    IN  /\ UNCHANGED s3
        /\ request.pc = "flushed"
        /\ invoices' = invoices \cup {invoice}
        /\ clients' =
             IF request.counter = None THEN clients
             ELSE [clients EXCEPT
                     ![invoice.client_id].next_invoice_number =
                         Some(Get(request.counter) + 1)]
        /\ messages' =
             [messages EXCEPT
                ![request.session] =
                    Append(@, UserMessage(<<"Generate PDF">>))]
        /\ requests' = [requests EXCEPT ![r].pc = "committed"]
        /\ UNCHANGED <<nextId, sessions, resp>>

\* chat.py 580-650: what follows the commit.  outcome says whether the PDF
\* renderer or the email writer raises.  The final commit writes pdf_path
\* and status back to the invoice row; when that row is gone the UPDATE
\* matches nothing, the flush fails and so does the handler's commit.
Outcomes == {"ok", "pdf_failed", "email_failed"}

PdfPath(invoice_number) == <<"invoices/">> \o invoice_number \o <<".pdf">>

\* chat.py 593-594: the row of the invoice carries its PDF
Rendered(db, invoice) ==
    {IF inv.id = invoice.id
     THEN [inv EXCEPT !.pdf_path = Some(PdfPath(invoice.invoice_number)),
                      !.status = "generated"]
     ELSE inv : inv \in db}

\* f"/api/invoices/{invoice.id}/pdf"
PdfUrl(invoice_id) == <<"/api/invoices/">> \o Str(invoice_id) \o <<"/pdf">>

\* A seal that would carry the id of the invoice only
SealedWithoutUrl(preview, invoice) ==
    [preview EXCEPT !.invoice_id = Some(invoice.id)]

\* chat.py 609-613: the preview marked as completed
SealedPreview(preview, invoice) ==
    [preview EXCEPT !.invoice_id = Some(invoice.id),
                    !.pdf_url = Some(PdfUrl(invoice.id))]

\* invoices.py 139-206: GET /api/invoices/{id}/pdf.  exists is what
\* Path(invoice.pdf_path).exists() answers, outcome whether the renderer
\* raises (then the handler answers 500 and nothing is committed)
get_invoice_pdf(invoice_id, exists, outcome) ==
    /\ UNCHANGED s3
    /\ UNCHANGED <<clients, nextId, sessions, messages, requests, resp>>
    /\ IF \A inv \in invoices : inv.id # invoice_id
       THEN UNCHANGED invoices
       ELSE LET invoice == CHOOSE inv \in invoices : inv.id = invoice_id
            IN  IF invoice.pdf_path # None /\ exists
                THEN UNCHANGED invoices
                ELSE IF outcome = "ok"
                THEN invoices' = Rendered(invoices, invoice)
                ELSE UNCHANGED invoices

\* A handler that would take the invoice back
LedgerRolledBack(db, invoice, outcome) ==
    {inv \in db : inv.id # invoice.id}

\* chat.py 636-644: the handler commits what the try block left pending;
\* the invoice was committed before and is not taken back
LedgerAfterFailure(db, invoice, outcome) ==
    IF outcome = "email_failed" THEN Rendered(db, invoice) ELSE db

_confirm_invoice_render(r, outcome) ==
    LET request == requests[r]
        session_id == request.session
        invoice == Get(request.invoice)
        present == \E inv \in invoices : inv.id = invoice.id
        success_message ==
            <<"Invoice ">> \o invoice.invoice_number
              \o <<" created successfully! PDF is ready for download.">>
        error_message == <<"Failed to create invoice: ", outcome>>
    IN  /\ UNCHANGED s3
        /\ request.pc = "committed"
        /\ requests' = [requests EXCEPT ![r] = IdleRequest]
        /\ UNCHANGED <<clients, nextId>>
        /\ \/ /\ outcome = "ok"
              /\ present
              /\ invoices' = Rendered(invoices, invoice)
              /\ sessions' =
                   [sessions EXCEPT
                      ![session_id].invoice_preview_json =
                          Some(SealedPreview(Get(request.preview),
                                             invoice))]
              /\ messages' =
                   [messages EXCEPT
                      ![session_id] =
                          Append(@, AssistantMessage(success_message))]
              /\ resp' = Response("invoice_created", success_message,
                                  session_id, Some(invoice.id))
           \/ /\ outcome = "pdf_failed"
              /\ invoices' = LedgerAfterFailure(invoices, invoice, outcome)
              /\ messages' =
                   [messages EXCEPT
                      ![session_id] =
                          Append(@, AssistantMessage(error_message))]
              /\ resp' = Response("error", error_message, session_id, None)
              /\ UNCHANGED sessions
           \/ /\ outcome = "email_failed"
              /\ present
              /\ invoices' = LedgerAfterFailure(invoices, invoice, outcome)
              /\ messages' =
                   [messages EXCEPT
                      ![session_id] =
                          Append(@, AssistantMessage(error_message))]
              /\ resp' = Response("error", error_message, session_id, None)
              /\ UNCHANGED sessions
           \/ /\ outcome \in {"ok", "email_failed"}
              /\ ~present
              /\ resp' = Unhandled(session_id)
              /\ UNCHANGED <<invoices, sessions, messages>>

(***************************************************************************)
(* api/chat.py chat: one message of the conversation.                      *)
(***************************************************************************)
NothingToConfirm ==
    <<"Nothing to confirm. Tell me about the invoice you want to create.">>

\* The names the oracle may send, resolved once against the roster that
\* the conversations start from
ResolvedClients ==
    LET names == {Strip(d.client_name) : d \in OracleDrafts}
        table == {<<n, _find_or_suggest_client(n, Roster, ClientOrder)>> :
                    n \in names}
    IN  [n \in names |-> (CHOOSE pair \in table : pair[1] = n)[2]]

\* Rosters the clients API can have set up (names of c1 and c2, in storage
\* order) and names the oracle can send, for client resolution
AcmeTools == Acme \o <<" ", "T", "o", "o", "l", "s">>

ResolveRosters ==
    { <<Spectrio, CodeSchool>>,
      <<Acme, AcmeTools \o <<" ", "W", "e", "s", "t">> >>,
      <<Spectrio \o <<" ", "L", "L", "C">>, Spectrio>>,
      <<CodeSchool \o <<" ", "I", "n", "c">>,
        CodeSchool \o <<" ", "W", "e", "s", "t">> >> }

ResolveNames ==
    { SpectrioLLC, Take(SpectrioLLC, 8), <<" ">> \o Acme, AcmeTools,
      CodeSchool,
      CodeSchool \o <<" ", "i", "n", "c", ".">>,
      Spectrio \o <<" ", "O", "r", "l", "a", "n", "d", "o">>,
      <<" ", " ">> }

ResolveDrafts ==
    { [client_name |-> n, invoice_type |-> t, date |-> None,
       invoice_number |-> None,
       hours_entries |-> <<[hours |-> 1, rate |-> None],
                           [hours |-> 2, rate |-> Some(20)]>>,
       line_items |-> <<[quantity |-> None, rate |-> 10],
                        [quantity |-> Some(3), rate |-> 10]>>] :
      n \in ResolveNames, t \in {None, Some("project")} }
    \cup {d \in OracleDrafts : d.client_name = SpectrioLLC}

ResolveExtractions ==
    {[status |-> "ready", invoice_data |-> Some(d), question |-> None] :
        d \in ResolveDrafts}

RosterOf(names) ==
    [c \in ClientIds |->
       [Roster[c] EXCEPT
          !.name = names[CHOOSE i \in 1..Len(ClientOrder) :
                           ClientOrder[i] = c]]]

NamesOf(roster) == [i \in 1..Len(ClientOrder) |-> roster[ClientOrder[i]].name]

\* The ids of the clients that are created later, in the order of their
\* creation (uuids in the code)
NewClientIds == <<"c3", "c4">>

\* The storage order of a clients table
StorageOrder(roster) ==
    SelectSeq(ClientOrder \o NewClientIds, LAMBDA c : c \in DOMAIN roster)

\* invoice_parser.py 98: the client of a name among the rows of the table
FindClient(client_name, roster) ==
    IF /\ DOMAIN roster = ClientIds
       /\ NamesOf(roster) = NamesOf(Roster)
       /\ client_name \in DOMAIN ResolvedClients
    THEN ResolvedClients[client_name]
    ELSE _find_or_suggest_client(client_name, roster, StorageOrder(roster))

ConfirmationContents ==
    {content \in Contents \cup Phrases : IsConfirmation(content)}

\* A suggestion that would always offer the hourly template
SuggestedHourlyClient(invoice_data, client_name) ==
    [name |-> client_name, template_type |-> "hourly"]

\* invoice_parser.py 104-107: what the caller may create the client from
SuggestedClient(invoice_data, client_name) ==
    [name |-> client_name,
     template_type |-> GetOr(invoice_data.invoice_type, "hourly")]

\* invoice_parser.py process_chat_message and _process_invoice_data
process_chat_message(extraction, db) ==
    IF extraction.status = "clarification_needed"
    THEN [status |-> "clarification_needed",
          message |-> GetOr(extraction.question,
                            <<"Could you provide more details?">>),
          invoice_preview |-> None, suggested_client |-> None]
    ELSE IF extraction.status = "ready"
    THEN LET invoice_data == GetOr(extraction.invoice_data, EmptyDict)
             client_name == Strip(invoice_data.client_name)
             client == FindClient(client_name, clients)
         IN  IF client = None
             THEN [status |-> "client_not_found",
                   message |->
                       <<"Client '">> \o client_name
                         \o <<"' not found. Would you like to create a new client?">>,
                   invoice_preview |-> None,
                   suggested_client |->
                       Some(SuggestedClient(invoice_data, client_name))]
             ELSE [status |-> "preview",
                   message |->
                       <<"Here's your invoice preview. Say 'confirm' to generate the PDF.">>,
                   invoice_preview |->
                       Some(_build_invoice_preview(invoice_data,
                                                   clients[Get(client)], db)),
                   suggested_client |-> None]
    ELSE [status |-> "error",
          message |-> <<"Could not process your request. Please try again.">>,
          invoice_preview |-> None, suggested_client |-> None]

\* chat.py 36-56: the session asked for, or a new row when there is none
NewSession == [invoice_preview_json |-> None, title |-> NewChat,
               client_id |-> None]

NewSessionId ==
    LET unused == {i \in 1..Len(SessionOrder) :
                     SessionOrder[i] \notin DOMAIN sessions}
    IN  SessionOrder[CHOOSE i \in unused : \A j \in unused : i <= j]

get_or_create_session(session_id) ==
    IF session_id \in DOMAIN sessions THEN sessions
    ELSE [s \in DOMAIN sessions \cup {NewSessionId} |->
            IF s \in DOMAIN sessions THEN sessions[s] ELSE NewSession]

\* A store that would patch the new preview into the current one and keep
\* the invoice_id of a sealed preview
StorePreviewMerging(session, preview_data) ==
    [invoice_preview_json |->
         IF session.invoice_preview_json = None THEN Some(preview_data)
         ELSE Some([preview_data EXCEPT
                      !.invoice_id =
                          Get(session.invoice_preview_json).invoice_id]),
     title |-> session.title,
     client_id |-> session.client_id]

\* A store that would name the session after the client of every preview
StorePreviewRetitling(session, preview_data) ==
    [invoice_preview_json |-> Some(preview_data),
     title |-> <<"Invoice: ">> \o preview_data.client_name,
     client_id |-> IF session.client_id = None
                   THEN Some(preview_data.client_id)
                   ELSE session.client_id]

\* chat.py 464-476: the preview replaces the current one; the title and
\* the client link are set when they still have their defaults
StorePreview(session, preview_data) ==
    [invoice_preview_json |-> Some(preview_data),
     title |-> IF preview_data.client_name # <<>> /\ session.title = NewChat
               THEN <<"Invoice: ">> \o preview_data.client_name
               ELSE session.title,
     client_id |-> IF session.client_id = None
                   THEN Some(preview_data.client_id)
                   ELSE session.client_id]

\* A reply that would take the number of its preview from the counter for
\* good
chat_reply_consuming(session_id, created, content, extraction) ==
    LET session == created[session_id]
        result == process_chat_message(extraction, invoices)
        Reply(msg) ==
            [messages EXCEPT
               ![session_id] = Append(Append(@, UserMessage(content)), msg)]
    IN  /\ UNCHANGED <<invoices, nextId, requests>>
        /\ IF result.status = "preview"
           THEN LET preview_data == Get(result.invoice_preview)
                    counter ==
                        clients[preview_data.client_id].next_invoice_number
                IN  /\ clients' =
                         IF counter = None THEN clients
                         ELSE [clients EXCEPT
                                 ![preview_data.client_id]
                                     .next_invoice_number =
                                         Some(Get(counter) + 1)]
                    /\ sessions' =
                         [created EXCEPT
                            ![session_id] =
                                StorePreview(session, preview_data)]
                    /\ messages' = Reply(PreviewMessage(result.message,
                                                        preview_data))
                    /\ resp' = Response("preview", result.message,
                                        session_id, None)
           ELSE /\ messages' = Reply(AssistantMessage(result.message))
                /\ resp' = [Response(result.status, result.message,
                                     session_id, None)
                               EXCEPT !.suggested_client =
                                          result.suggested_client]
                /\ sessions' = created
                /\ UNCHANGED clients

\* chat.py 425-544: the reply to a message that is no confirmation
chat_reply(session_id, created, content, extraction) ==
    LET session == created[session_id]
        result == process_chat_message(extraction, invoices)
        Reply(msg) ==
            [messages EXCEPT
               ![session_id] = Append(Append(@, UserMessage(content)), msg)]
    IN  /\ UNCHANGED <<clients, invoices, nextId, requests>>
        /\ IF result.status = "preview"
           THEN LET preview_data == Get(result.invoice_preview)
                IN  /\ sessions' =
                         [created EXCEPT
                            ![session_id] =
                                StorePreview(session, preview_data)]
                    /\ messages' = Reply(PreviewMessage(result.message,
                                                        preview_data))
                    /\ resp' = Response("preview", result.message,
                                        session_id, None)
           ELSE /\ messages' = Reply(AssistantMessage(result.message))
                /\ resp' = [Response(result.status, result.message,
                                     session_id, None)
                               EXCEPT !.suggested_client =
                                          result.suggested_client]
                /\ sessions' = created

chat(message_session_id, content, extraction) ==
    LET created == get_or_create_session(message_session_id)
        session_id == IF message_session_id \in DOMAIN sessions
                      THEN message_session_id ELSE NewSessionId
        session == created[session_id]
        user_msg == UserMessage(content)
    IN  /\ UNCHANGED s3
        /\ \/ message_session_id \in DOMAIN sessions
           \/ /\ Cardinality(DOMAIN sessions) < MaxSessions
              /\ message_session_id = NewSessionId
        /\ \/ /\ content \in ConfirmationContents
              /\ session.invoice_preview_json # None
              /\ RoomForMessages(1)
              /\ messages' = [messages EXCEPT
                                ![session_id] = Append(@, user_msg)]
              /\ _confirm_invoice(session_id)
              /\ UNCHANGED <<clients, invoices, nextId, sessions>>
           \/ /\ content \in ConfirmationContents
              /\ session.invoice_preview_json = None
              /\ RoomForMessages(2)
              /\ messages' =
                   [messages EXCEPT
                      ![session_id] =
                          Append(Append(@, user_msg),
                                 AssistantMessage(NothingToConfirm))]
              /\ resp' = Response("message", NothingToConfirm, session_id,
                                  None)
              /\ sessions' = created
              /\ UNCHANGED <<clients, invoices, nextId, requests>>
           \/ /\ content \notin ConfirmationContents
              /\ extraction.status = "raise"
              /\ RoomForMessages(1)
              /\ messages' = [messages EXCEPT
                                ![session_id] = Append(@, user_msg)]
              /\ resp' = Unhandled(session_id)
              /\ sessions' = created
              /\ UNCHANGED <<clients, invoices, nextId, requests>>
           \/ /\ content \notin ConfirmationContents
              /\ extraction.status # "raise"
              /\ RoomForMessages(2)
              /\ chat_reply(session_id, created, content, extraction)

(***************************************************************************)
(* api/clients.py and chat.py 674-716: the writes of the clients table.    *)
(***************************************************************************)
\* ClientCreate payloads of POST /api/clients
NewClients ==
    { [name |-> n, default_rate |-> 75, template_type |-> "hourly",
       invoice_prefix |-> INV, next_invoice_number |-> None] :
      n \in {Acme, Spectrio, Lower(Spectrio)} }

\* ClientUpdate payloads of PUT /api/clients/{id} (None: field not set)
ClientUpdates ==
    { [name |-> Some(Spectrio), default_rate |-> Some(80)],
      [name |-> Some(Lower(CodeSchool)), default_rate |-> None] }

RoomForClient == Cardinality(DOMAIN clients) < MaxClients

NewClientId ==
    LET unused == {i \in 1..Len(NewClientIds) :
                     NewClientIds[i] \notin DOMAIN clients}
    IN  NewClientIds[CHOOSE i \in unused : \A j \in unused : i <= j]

\* Client.name is unique=True (models/client.py 27): the comparison of the
\* constraint, and of the handlers' own check, is that of the strings
NameTaken(name) == \E c \in DOMAIN clients : clients[c].name = name

Inserted(client) ==
    [c \in DOMAIN clients \cup {NewClientId} |->
       IF c \in DOMAIN clients THEN clients[c]
       ELSE [id |-> NewClientId, name |-> client.name,
             default_rate |-> client.default_rate,
             template_type |-> client.template_type,
             invoice_prefix |-> client.invoice_prefix,
             next_invoice_number |-> client.next_invoice_number]]

\* clients.py 21-36: 400 when the name exists
create_client(client) ==
    /\ UNCHANGED s3
    /\ RoomForClient
    /\ UNCHANGED <<invoices, nextId, sessions, messages, requests, resp>>
    /\ IF NameTaken(client.name) THEN UNCHANGED clients
       ELSE clients' = Inserted(client)

\* clients.py 52-78: 404 for an unknown id, 400 when the new name exists
update_client(client_id, client_update) ==
    /\ UNCHANGED s3
    /\ UNCHANGED <<invoices, nextId, sessions, messages, requests, resp>>
    /\ IF client_id \notin DOMAIN clients THEN UNCHANGED clients
       ELSE IF /\ client_update.name # None
               /\ Get(client_update.name) # clients[client_id].name
               /\ NameTaken(Get(client_update.name))
       THEN UNCHANGED clients
       ELSE clients' =
              [clients EXCEPT
                 ![client_id].name = GetOr(client_update.name, @),
                 ![client_id].default_rate =
                     GetOr(client_update.default_rate, @)]

\* chat.py 674-716: no check of the name; the INSERT of a name that exists
\* fails on the constraint and the exception leaves the handler
create_client_from_chat(session_id, name) ==
    LET client == [name |-> name, default_rate |-> 0,
                   template_type |-> "hourly", invoice_prefix |-> INV,
                   next_invoice_number |-> None]
        response_message ==
            <<"Client '">> \o name
              \o <<"' created! Now tell me about the invoice you want to create.">>
    IN  /\ UNCHANGED s3
        /\ RoomForClient
        /\ RoomForMessages(1)
        /\ UNCHANGED <<invoices, nextId, requests>>
        /\ IF session_id \notin DOMAIN sessions
           THEN /\ resp' = Response("404", <<"Session not found">>,
                                    session_id, None)
                /\ UNCHANGED <<clients, sessions, messages>>
           ELSE IF NameTaken(name)
           THEN /\ resp' = Unhandled(session_id)
                /\ UNCHANGED <<clients, sessions, messages>>
           ELSE /\ clients' = Inserted(client)
                /\ sessions' =
                     [sessions EXCEPT
                        ![session_id].client_id = Some(NewClientId),
                        ![session_id].title = <<"Chat with ">> \o name]
                /\ messages' =
                     [messages EXCEPT
                        ![session_id] =
                            Append(@, AssistantMessage(response_message))]
                /\ resp' = Response("message", response_message,
                                    session_id, None)

(***************************************************************************)
(* api/chat.py upload_image and services/s3_service.py.                    *)
(***************************************************************************)
\* bool(x) of an Optional[str] setting
Truthy(setting) == setting # None /\ Get(setting) # ""

\* A test that would look at the credentials only
is_configured_credentials ==
    /\ Truthy(s3.aws_access_key_id)
    /\ Truthy(s3.aws_secret_access_key)

\* s3_service.py 103-109
is_configured ==
    /\ Truthy(s3.aws_access_key_id)
    /\ Truthy(s3.aws_secret_access_key)
    /\ Truthy(s3.aws_s3_bucket)

allowed_types ==
    {"image/jpeg", "image/jpg", "image/png", "image/gif", "image/webp"}

max_size == 10 * 1024 * 1024

\* The uploads of the page: content type (None: the part names none) and
\* len(content)
Files ==
    [content_type : {Some(t) : t \in allowed_types
                                    \cup {"image/svg+xml", "text/plain"}}
                    \cup {None},
     size : {max_size, max_size + 1}]

\* What put_object does: it answers, raises ClientError, or raises an
\* error of the connection
S3Outcomes == {"ok", "ClientError", "EndpointConnectionError"}

RoomForUpload == Len(s3.calls) < MaxUploads

\* s3_service.py 79-101, for the types of the allow-list
_get_extension(content_type) ==
    IF content_type \in {"image/jpeg", "image/jpg"} THEN ".jpg"
    ELSE IF content_type = "image/png" THEN ".png"
    ELSE IF content_type = "image/gif" THEN ".gif"
    ELSE IF content_type = "image/webp" THEN ".webp"
    ELSE ".png"

\* s3_service.py 40-77: the client and bucket properties raise ValueError
\* before any call when a setting is missing
s3_upload_image(file, outcome) ==
    IF ~(Truthy(s3.aws_access_key_id) /\ Truthy(s3.aws_secret_access_key))
    THEN [raised |-> Some("AWS credentials not configured"), called |-> FALSE,
          url |-> <<>>]
    ELSE IF ~Truthy(s3.aws_s3_bucket)
    THEN [raised |-> Some("AWS S3 bucket not configured"), called |-> FALSE,
          url |-> <<>>]
    ELSE IF outcome = "ok"
    THEN [raised |-> None, called |-> TRUE,
          url |-> <<"https://", Get(s3.aws_s3_bucket),
                    ".s3.us-east-1.amazonaws.com/chat-images/",
                    _get_extension(Get(file.content_type))>>]
    ELSE IF outcome = "ClientError"
    THEN [raised |-> Some("Failed to upload image to S3: ClientError"),
          called |-> TRUE, url |-> <<>>]
    ELSE [raised |-> Some(outcome), called |-> TRUE, url |-> <<>>]

\* chat.py 741-779
upload_image(file, outcome) ==
    /\ RoomForUpload
    /\ UNCHANGED <<clients, invoices, nextId, sessions, messages, requests>>
    /\ IF ~is_configured
       THEN /\ resp' = Response("503",
                                <<"Image upload is not configured. Please set AWS S3 credentials.">>,
                                "", None)
            /\ UNCHANGED s3
       ELSE IF \/ file.content_type = None
               \/ Get(file.content_type) \notin allowed_types
       THEN /\ resp' = Response("400", <<"File type not allowed">>, "", None)
            /\ UNCHANGED s3
       ELSE IF file.size > max_size
       THEN /\ resp' = Response("400",
                                <<"File too large. Maximum size is 10MB.">>,
                                "", None)
            /\ UNCHANGED s3
       ELSE LET result == s3_upload_image(file, outcome)
            IN  /\ s3' = IF result.called
                         THEN [s3 EXCEPT
                                 !.calls =
                                     Append(@, [ContentType |->
                                                    Get(file.content_type),
                                                Size |-> file.size])]
                         ELSE s3
                /\ resp' =
                     IF result.raised = None
                     THEN Response("200", result.url, "", None)
                     ELSE Response("500",
                                   <<"Failed to upload image: ",
                                     Get(result.raised)>>, "", None)

\* The steps of a confirmation past its first
Confirmation ==
    \/ \E r \in Requests : create_invoice_from_preview(r)
    \/ \E r \in Requests : db_commit(r)
    \/ \E r \in Requests, outcome \in Outcomes :
          _confirm_invoice_render(r, outcome)

\* No request is being served
Quiet == \A r \in Requests : requests[r].pc = "idle"

\* The conversation: messages, the preview slot, confirmations.  One worker
\* process serves it: the handlers are coroutines that never yield, so a
\* request is taken when the one before it has ended.
ChatNext ==
    \/ /\ Quiet
       /\ \E session_id \in SessionIds, content \in Contents,
             extraction \in Extractions :
             chat(session_id, content, extraction)
    \/ /\ Quiet
       /\ \E session_id \in SessionIds, preview \in ClientPreviews :
             set_preview_data(session_id, preview)
    \/ /\ Quiet
       /\ \E session_id \in SessionIds, message_session \in SessionIds,
             i \in 1..MaxMessages :
             set_preview_version(session_id, message_session, i)
    \/ /\ Quiet
       /\ \E session_id \in SessionIds : confirm_invoice(session_id)
    \/ Confirmation

\* The ledger: the invoice endpoints next to confirmations, served by
\* several worker processes, so that requests overlap step by step
LedgerNext ==
    \/ \E invoice \in DirectInvoices : create_invoice(invoice)
    \/ \E invoice_id \in 1..MaxInvoices, invoice_update \in InvoiceUpdates :
          update_invoice(invoice_id, invoice_update)
    \/ \E invoice_id \in 1..MaxInvoices : delete_invoice(invoice_id)
    \/ \E session_id \in SessionIds : confirm_invoice(session_id)
    \/ Confirmation


\* A conversation from an empty database
SpecChat == Init /\ [][ChatNext]_vars

\* Sessions that each hold the preview of one chat message sent while the
\* ledger was empty
SessionAfter(draft) ==
    StorePreview(NewSession,
                 _build_invoice_preview(
                     draft, Roster[Get(ResolvedClients[Strip(draft.client_name)])],
                     {}))

InitLedger ==
    /\ clients = Roster
    /\ invoices = {}
    /\ nextId = 1
    /\ \E drafts \in [SessionIds ->
                        {d \in OracleDrafts :
                           ResolvedClients[Strip(d.client_name)] # None}] :
          /\ sessions = [s \in SessionIds |-> SessionAfter(drafts[s])]
          /\ messages =
               [s \in SessionIds |->
                  <<UserMessage(Bill),
                    PreviewMessage(
                        <<"Here's your invoice preview. Say 'confirm' to generate the PDF.">>,
                        Get(SessionAfter(drafts[s]).invoice_preview_json))>>]
    /\ requests = [r \in Requests |-> IdleRequest]
    /\ resp = Response("none", <<"">>, "", None)
    /\ s3 = NoStorage

SpecLedger == InitLedger /\ [][LedgerNext]_vars

\* Confirmations of the previews that the sessions hold, overlapping, with
\* deletion as the only other operation on the ledger
ConfirmNext ==
    \/ \E session_id \in SessionIds : confirm_invoice(session_id)
    \/ \E invoice_id \in 1..MaxInvoices : delete_invoice(invoice_id)
    \/ Confirmation

SpecConfirm == InitLedger /\ [][ConfirmNext]_vars

(***************************************************************************)
(* The collision guard against ledgers that direct creation has filled:    *)
(* the base number, letter-suffixed forms of it and the timestamped form.  *)
(***************************************************************************)
SeededRow(id, invoice_number) ==
    [id |-> id, client_id |-> "c1", session_id |-> None,
     invoice_number |-> invoice_number, date |-> Today, total_amount |-> 0,
     status |-> "draft", pdf_path |-> None, hours_entries |-> <<>>,
     line_items |-> <<>>]

\* Which letters are taken: the first k, or all but one
LetterSets ==
    {1..k : k \in 0..Len(Letters)}
    \cup {(1..Len(Letters)) \ {j} : j \in {2, Len(Letters)}}

SeededLedger(with_base, letters, with_stamp) ==
    (IF with_base THEN {SeededRow(100, N_INV_001)} ELSE {})
    \cup {SeededRow(100 + i, N_INV_001 \o <<Letters[i]>>) : i \in letters}
    \cup UNION {IF with_stamp
                THEN {SeededRow(200 + t, N_INV_001 \o <<"-">> \o Str(t))}
                ELSE {} : t \in Times}

InitGuard ==
    /\ clients = Roster
    /\ \E with_base \in BOOLEAN, letters \in LetterSets,
          with_stamp \in BOOLEAN :
          invoices = SeededLedger(with_base, letters, with_stamp)
    /\ nextId = 1
    /\ \E drafts \in [SessionIds ->
                        {d \in OracleDrafts :
                           ResolvedClients[Strip(d.client_name)] # None}] :
          /\ sessions = [s \in SessionIds |-> SessionAfter(drafts[s])]
          /\ messages =
               [s \in SessionIds |->
                  <<UserMessage(Bill),
                    PreviewMessage(
                        <<"Here's your invoice preview. Say 'confirm' to generate the PDF.">>,
                        Get(SessionAfter(drafts[s]).invoice_preview_json))>>]
    /\ requests = [r \in Requests |-> IdleRequest]
    /\ resp = Response("none", <<"">>, "", None)
    /\ s3 = NoStorage

GuardNext ==
    \/ \E session_id \in SessionIds : confirm_invoice(session_id)
    \/ \E r \in Requests : create_invoice_from_preview(r)

SpecGuard == InitGuard /\ [][GuardNext]_vars

\* Conversations in which the confirmation phrases are typed in all their
\* forms
PhraseNext ==
    \/ \E session_id \in SessionIds, content \in Phrases,
          extraction \in Extractions :
          chat(session_id, content, extraction)
    \/ Confirmation

SpecPhrase == Init /\ [][PhraseNext]_vars

\* Resolution of the names the oracle sends, in each roster
InitResolve ==
    /\ clients \in {RosterOf(names) : names \in ResolveRosters}
    /\ invoices = {}
    /\ nextId = 1
    /\ sessions = <<>>
    /\ messages = [s \in SessionIds |-> <<>>]
    /\ requests = [r \in Requests |-> IdleRequest]
    /\ resp = Response("none", <<"">>, "", None)
    /\ s3 = NoStorage

ResolveNext ==
    \E session_id \in SessionIds, extraction \in ResolveExtractions :
        chat(session_id, Bill, extraction)

SpecResolve == InitResolve /\ [][ResolveNext]_vars

\* The conversation over the texts of the oracle
OracleNext ==
    \/ \E session_id \in SessionIds, content \in OracleResponses :
          chat(session_id, Bill, extract_invoice_data(content))
    \/ \E session_id \in SessionIds :
          chat(session_id, Yes, extract_invoice_data(None))
    \/ Confirmation

SpecOracle == Init /\ [][OracleNext]_vars

\* The invoices API with the PDF retrieval
StatusUpdates ==
    {[invoice_number |-> None, status |-> Some(st)] : st \in {"sent", "paid"}}

PdfNext ==
    \/ \E invoice \in DirectInvoices : create_invoice(invoice)
    \/ \E invoice_id \in 1..MaxInvoices,
          invoice_update \in InvoiceUpdates \cup StatusUpdates :
          update_invoice(invoice_id, invoice_update)
    \/ \E invoice_id \in 1..MaxInvoices : delete_invoice(invoice_id)
    \/ \E invoice_id \in 1..MaxInvoices, exists \in BOOLEAN,
          outcome \in {"ok", "pdf_failed"} :
          get_invoice_pdf(invoice_id, exists, outcome)

SpecPdf == Init /\ [][PdfNext]_vars

\* The clients table and the conversations that ask for new clients
ClientNext ==
    \/ \E client \in NewClients : create_client(client)
    \/ \E client_id \in ClientIds \cup {NewClientIds[1]},
          client_update \in ClientUpdates :
          update_client(client_id, client_update)
    \/ \E session_id \in SessionIds, name \in {Acme, Lower(Spectrio)} :
          create_client_from_chat(session_id, name)
    \/ \E session_id \in SessionIds,
          extraction \in {e \in Extractions :
                             /\ e.status = "ready"
                             /\ Get(e.invoice_data).client_name = Acme} :
          chat(session_id, Bill, extraction)

SpecClients == Init /\ [][ClientNext]_vars

\* Preview versions: sessions that hold a preview and its message, the
\* promotion of messages between them, and confirmations, served by several
\* worker processes
VersionDrafts ==
    {d \in OracleDrafts : /\ d.client_name \in {SpectrioLLC, CodeSchool}
                          /\ d.invoice_number = None}

InitVersions ==
    /\ clients = Roster
    /\ invoices = {}
    /\ nextId = 1
    /\ \E drafts \in [SessionIds -> VersionDrafts] :
          /\ sessions = [s \in SessionIds |-> SessionAfter(drafts[s])]
          /\ messages =
               [s \in SessionIds |->
                  <<UserMessage(Bill),
                    PreviewMessage(
                        <<"Here's your invoice preview. Say 'confirm' to generate the PDF.">>,
                        Get(SessionAfter(drafts[s]).invoice_preview_json))>>]
    /\ requests = [r \in Requests |-> IdleRequest]
    /\ resp = Response("none", <<"">>, "", None)
    /\ s3 = NoStorage

VersionNext ==
    \/ \E session_id \in SessionIds \cup {"s0"}, message_session \in SessionIds,
          i \in 1..MaxMessages :
          set_preview_version(session_id, message_session, i)
    \/ \E session_id \in SessionIds : confirm_invoice(session_id)
    \/ Confirmation

SpecVersions == InitVersions /\ [][VersionNext]_vars

\* Confirmations sent twice: the requests of several worker processes
\* overlap step by step, and the renderer and the email writer never fail
RaceNext ==
    \/ \E session_id \in SessionIds : confirm_invoice(session_id)
    \/ \E r \in Requests : create_invoice_from_preview(r)
    \/ \E r \in Requests : db_commit(r)
    \/ \E r \in Requests : _confirm_invoice_render(r, "ok")

SpecRace == InitVersions /\ [][RaceNext]_vars

\* Ledgers of Code School, which numbers its invoices from the ledger:
\* invoices entered under numbers of three and four digits and under the
\* suffixed numbers of the collision guard, and the previews numbered after
\* them
SequenceNumbers ==
    {NumberStem(CS, Today) \o tail :
        tail \in {<<"0", "0", "1">>, <<"0", "0", "2", "a">>,
                  <<"1", "0", "0", "0">>, <<"0", "0", "1", "-", "1", "7">>}}

SequenceInvoices ==
    {[client_id |-> "c2", invoice_number |-> n, hours_entries |-> <<>>,
      line_items |-> <<[quantity |-> 1, rate |-> 500]>>] :
        n \in SequenceNumbers}

SequenceExtractions ==
    {e \in Extractions :
        /\ e.status = "ready"
        /\ Get(e.invoice_data).client_name = CodeSchool
        /\ Get(e.invoice_data).invoice_number = None}

SequenceNext ==
    \/ \E invoice \in SequenceInvoices : create_invoice(invoice)
    \/ \E session_id \in SessionIds, extraction \in SequenceExtractions :
          chat(session_id, Bill, extraction)

SpecSequence == Init /\ [][SequenceNext]_vars

\* Versions promoted and confirmed, request after request
PromoteNext ==
    \/ /\ Quiet
       /\ \E session_id \in SessionIds, message_session \in SessionIds,
             i \in 1..MaxMessages :
             set_preview_version(session_id, message_session, i)
    \/ /\ Quiet
       /\ \E session_id \in SessionIds : confirm_invoice(session_id)
    \/ /\ Quiet
       /\ \E session_id \in SessionIds, extraction \in SequenceExtractions :
             chat(session_id, Yes, extraction)
    \/ Confirmation

SpecPromote == InitVersions /\ [][PromoteNext]_vars

\* The image upload, in processes started with each environment
SettingValues == {None, Some(""), Some("set")}

InitUpload ==
    /\ clients = Roster
    /\ invoices = {}
    /\ nextId = 1
    /\ sessions = <<>>
    /\ messages = [s \in SessionIds |-> <<>>]
    /\ requests = [r \in Requests |-> IdleRequest]
    /\ resp = Response("none", <<"">>, "", None)
    /\ \E key \in SettingValues, secret \in SettingValues,
          bucket \in SettingValues :
          s3 = [aws_access_key_id |-> key, aws_secret_access_key |-> secret,
                aws_s3_bucket |-> bucket, calls |-> <<>>]

UploadNext ==
    \E file \in Files, outcome \in S3Outcomes : upload_image(file, outcome)

SpecUpload == InitUpload /\ [][UploadNext]_vars

Next == ChatNext \/ LedgerNext \/ PdfNext \/ ClientNext \/ UploadNext

Spec == Init /\ [][Next]_vars

(***************************************************************************)
(* Properties.                                                             *)
(***************************************************************************)
Sealed(session_id) ==
    /\ session_id \in DOMAIN sessions
    /\ sessions[session_id].invoice_preview_json # None
    /\ Get(sessions[session_id].invoice_preview_json).invoice_id # None

\* C1: a confirmation of a sealed preview, by a confirmation phrase sent to
\* chat or by the /confirm endpoint, answers invoice_created with the
\* invoice_id the preview carries, and leaves the Invoice rows and the
\* preview as they are, so that the next confirmation does the same.
C1_SealedConfirmationRepeats ==
    [][\A session_id \in SessionIds :
         /\ Sealed(session_id)
         /\ \/ confirm_invoice(session_id)
            \/ \E content \in ConfirmationContents,
                  extraction \in Extractions :
                  chat(session_id, content, extraction)
         => /\ resp'.status = "invoice_created"
            /\ resp'.invoice_id =
                 Get(sessions[session_id].invoice_preview_json).invoice_id
            /\ invoices' = invoices
            /\ sessions' = sessions
            /\ requests' = requests]_vars

\* A sealed preview was confirmed by a phrase in the chat and was answered
\* with the invoice it had created
C1_Witness ==
    \E session_id \in DOMAIN sessions :
       /\ Sealed(session_id)
       /\ resp.status = "invoice_created"
       /\ resp.message = AlreadyCreated
       /\ resp.invoice_id =
            Get(sessions[session_id].invoice_preview_json).invoice_id
       /\ Len(messages[session_id]) > 0
       /\ messages[session_id][Len(messages[session_id])].role = "user"
       /\ messages[session_id][Len(messages[session_id])].content = Yes

\* C2: no two Invoice rows of the ledger share an invoice_number, whatever
\* sequence of direct creations, updates, renumberings, confirmations and
\* deletions led to the state.
C2_UniqueInvoiceNumbers ==
    \A a \in invoices, b \in invoices :
       a.invoice_number = b.invoice_number => a = b

\* A confirmation met its number in the ledger and was stored under
\* another one
C2_Witness ==
    \E a \in invoices, b \in invoices :
       /\ b.session_id # None
       /\ b.invoice_number = a.invoice_number \o <<"a">>

\* C3: the number that the commit-time collision guard returns is absent
\* from the ledger it was computed against: the base number when unused,
\* else the base with the first unused letter, else the base with the
\* timestamp.
C3_GuardNumberIsUnused ==
    [][\A r \in Requests :
         requests[r].pc = "idle" /\ requests'[r].pc = "checked"
         => requests'[r].unique_number \notin Numbers(invoices)]_vars

\* The guard ran out of letters and returned a timestamped number that a
\* row of the ledger carries
C3_Witness ==
    \E r \in Requests, t \in Times :
       /\ requests[r].pc = "checked"
       /\ requests[r].unique_number = N_INV_001 \o <<"-">> \o Str(t)
       /\ requests[r].unique_number \in Numbers(invoices)

\* C4: of two concurrent confirmations whose previews carry the same
\* number, the one that checked the ledger before the other's row was
\* committed does not fail at its INSERT.
C4_NoConfirmationFailsOnInsert ==
    [][\A r \in Requests, q \in Requests :
         /\ r # q
         /\ requests[r].pc = "checked"
         /\ requests[q].pc \in {"flushed", "committed"}
         /\ Get(requests[r].preview).invoice_number
              = Get(requests[q].preview).invoice_number
         => requests'[r].pc # "idle"]_vars

\* Two confirmations of the same number were in flight, and the later
\* INSERT was answered with an unhandled error
C4_Witness ==
    \E q \in Requests :
       /\ requests[q].pc \in {"flushed", "committed"}
       /\ resp.status = "unhandled"
       /\ resp.session_id # requests[q].session
       /\ Get(sessions[resp.session_id].invoice_preview_json).invoice_number
            = Get(requests[q].invoice).invoice_number

\* C5: the COMMIT of an invoice for a client with a manual counter raises
\* that counter by exactly 1.
C5_CommitRaisesCounterByOne ==
    [][\A r \in Requests :
         /\ requests[r].pc = "flushed"
         /\ requests'[r].pc = "committed"
         /\ clients[Get(requests[r].invoice).client_id].next_invoice_number
              # None
         => clients'[Get(requests[r].invoice).client_id].next_invoice_number
              = Some(Get(clients[Get(requests[r].invoice).client_id]
                                .next_invoice_number) + 1)]_vars

\* Two invoices of the client that counts by hand are committed, and the
\* counter has moved from 1 to 2
C5_Witness ==
    /\ Cardinality({inv \in invoices :
                      inv.client_id = "c1" /\ inv.session_id # None}) = 2
    /\ clients["c1"].next_invoice_number = Some(2)

\* The last step committed the invoice of request r
Committing(r) ==
    requests[r].pc = "flushed" /\ requests'[r].pc = "committed"

\* Invoices that confirmations stored for one client in one year
SameSeries(a, b) ==
    /\ a.session_id # None
    /\ b.session_id # None
    /\ a.client_id = b.client_id
    /\ a.date = b.date

\* C6: a confirmation stores its invoice under a number that no row of the
\* ledger carries: the number of its preview, or that number with a letter
\* from a to z and so with the same sequence number, or that number with a
\* timestamp.
C6_CommittedNumberIsFreshVersion ==
    [][\A r \in Requests :
         Committing(r)
         => LET invoice == Get(requests[r].invoice)
                number  == invoice.invoice_number
                base    == Get(requests[r].preview).invoice_number
            IN  /\ number \notin Numbers(invoices)
                /\ invoices' = invoices \cup {invoice}
                /\ \/ number = base
                   \/ /\ \E i \in 1..Len(Letters) :
                            number = base \o <<Letters[i]>>
                      /\ SeqOf(number) = SeqOf(base)
                   \/ \E t \in Times :
                         number = base \o <<"-">> \o Str(t)]_vars

\* Two confirmations of one client and year are stored as N and Na
C6_Witness ==
    \E a \in invoices, b \in invoices :
       /\ SameSeries(a, b)
       /\ a.id < b.id
       /\ b.invoice_number = a.invoice_number \o <<"a">>
       /\ SeqOf(a.invoice_number) = SeqOf(b.invoice_number)

\* C6 as stated: the invoices that confirmations stored for one client in
\* one year carry strictly increasing sequence numbers.
C6_SequenceStrictlyIncreasing ==
    \A a \in invoices, b \in invoices :
       SameSeries(a, b) /\ a.id < b.id
       => SeqOf(a.invoice_number) < SeqOf(b.invoice_number)

\* C7: a number that the builder generates for a draft without a number is
\* the number of no row of the ledger.
C7_GeneratedNumberIsUnused ==
    [][\A session_id \in SessionIds,
          content \in Contents \ ConfirmationContents,
          extraction \in {e \in Extractions : e.status = "ready"} :
         /\ Get(extraction.invoice_data).invoice_number = None
         /\ chat(session_id, content, extraction)
         /\ resp'.status = "preview"
         => Get(sessions'[resp'.session_id].invoice_preview_json)
               .invoice_number \notin Numbers(invoices)]_vars

\* The session holds a fresh preview for Code School whose number is the
\* number of an invoice of Spectrio
C7_Witness ==
    /\ resp.status = "preview"
    /\ LET preview ==
              Get(sessions[resp.session_id].invoice_preview_json)
       IN  /\ preview.client_id = "c2"
           /\ preview.invoice_number = N_CS_001
           /\ \E inv \in invoices :
                 /\ inv.invoice_number = preview.invoice_number
                 /\ inv.client_id = "c1"

\* C8: the total_amount of every invoice is the sum of hours * rate over
\* its hours entries plus the sum of amount over its line items.
C8_TotalIsSumOfEntries ==
    \A inv \in invoices :
       inv.total_amount
         = calculate_invoice_total(inv.hours_entries, inv.line_items)

\* A confirmation stored the total of a preview that set-preview-data had
\* put into the session
C8_Witness ==
    \E inv \in invoices, preview \in ClientPreviews :
       /\ inv.session_id # None
       /\ inv.total_amount = preview.total_amount
       /\ inv.total_amount
            # calculate_invoice_total(inv.hours_entries, inv.line_items)

\* C9: when the PDF renderer or the email writer raises after the commit,
\* the invoice row that is in the ledger stays there with its number, its
\* entries, its items and its total, its status stays as it was or becomes
\* generated (draft or generated for a draft), no client's counter moves,
\* and the request ends with an error response whose text is the last
\* message of the session.
C9_FailureAfterCommitKeepsInvoice ==
    [][\A r \in Requests, outcome \in {"pdf_failed", "email_failed"} :
         /\ requests[r].pc = "committed"
         /\ \E inv \in invoices : inv.id = Get(requests[r].invoice).id
         /\ _confirm_invoice_render(r, outcome)
         => LET before == CHOOSE inv \in invoices :
                             inv.id = Get(requests[r].invoice).id
                session_id == requests[r].session
            IN  /\ \E after \in invoices' :
                      /\ after.id = before.id
                      /\ after.invoice_number = before.invoice_number
                      /\ after.hours_entries = before.hours_entries
                      /\ after.line_items = before.line_items
                      /\ after.total_amount = before.total_amount
                      /\ after.status \in {before.status, "generated"}
                      /\ before.status = "draft"
                           => after.status \in {"draft", "generated"}
                /\ clients' = clients
                /\ resp'.status = "error"
                /\ resp'.session_id = session_id
                /\ messages'[session_id]
                     = Append(messages[session_id],
                              AssistantMessage(resp'.message))]_vars

\* A confirmation ended with the error of its renderer, and its invoice is
\* in the ledger as a draft while the counter of its client has advanced
C9_Witness ==
    /\ resp.status = "error"
    /\ \E inv \in invoices :
          /\ inv.session_id = Some(resp.session_id)
          /\ inv.status = "draft"
          /\ inv.client_id = "c1"
          /\ clients["c1"].next_invoice_number = Some(2)
    /\ messages[resp.session_id][Len(messages[resp.session_id])]
         = AssistantMessage(resp.message)

\* C10: a chat message that is answered with a preview, a clarification or
\* client_not_found leaves the ledger, the counters and the confirmations in
\* flight as they are; it changes the session of the message: it appends to
\* its messages and may replace its preview, title and client link.
C10_ChatLeavesLedgerAlone ==
    [][\A session_id \in SessionIds,
          content \in Contents \ ConfirmationContents,
          extraction \in Extractions :
         /\ chat(session_id, content, extraction)
         /\ resp'.status
              \in {"preview", "clarification_needed", "client_not_found"}
         => /\ invoices' = invoices
            /\ clients' = clients
            /\ nextId' = nextId
            /\ requests' = requests
            /\ \A other \in DOMAIN sessions \ {resp'.session_id} :
                  sessions'[other] = sessions[other]
            /\ \A other \in SessionIds \ {resp'.session_id} :
                  messages'[other] = messages[other]
            /\ SubSeq(messages'[resp'.session_id], 1,
                      Len(messages[resp'.session_id]))
                 = messages[resp'.session_id]]_vars

\* A preview was the answer while the ledger held an invoice and the
\* counter of Spectrio had advanced
C10_Witness ==
    /\ resp.status = "preview"
    /\ invoices # {}
    /\ clients["c1"].next_invoice_number = Some(2)
    /\ sessions[resp.session_id].invoice_preview_json # None
    /\ Get(sessions[resp.session_id].invoice_preview_json).invoice_id = None

\* The session of a request: none before its first message
NoPreview(session_id) ==
    \/ session_id \notin DOMAIN sessions
    \/ sessions[session_id].invoice_preview_json = None

\* C11: a confirmation phrase, in any case and with blanks around it, sent
\* to a session without a preview is answered with status message and the
\* text 'Nothing to confirm', whatever the oracle would have returned or
\* raised; the message and the answer are appended to the session, no
\* Invoice row and no confirmation request comes into being, and the
\* session has no preview afterwards.
C11_NothingToConfirm ==
    [][\A session_id \in SessionIds, content \in ConfirmPhrases,
          extraction \in Extractions :
         /\ NoPreview(session_id)
         /\ chat(session_id, content, extraction)
         => /\ resp' = Response("message", NothingToConfirm, session_id, None)
            /\ invoices' = invoices
            /\ nextId' = nextId
            /\ clients' = clients
            /\ requests' = requests
            /\ sessions'[session_id].invoice_preview_json = None
            /\ messages'[session_id]
                 = messages[session_id]
                     \o <<UserMessage(content),
                          AssistantMessage(NothingToConfirm)>>]_vars

\* ' OK ' was sent to a session without a preview and was answered with
\* 'Nothing to confirm'
C11_Witness ==
    /\ resp.status = "message"
    /\ resp.message = NothingToConfirm
    /\ sessions[resp.session_id].invoice_preview_json = None
    /\ invoices = {}
    /\ LET log == messages[resp.session_id]
       IN  /\ Len(log) >= 2
           /\ log[Len(log) - 1] = UserMessage(<<" ", "O", "K", " ">>)
           /\ log[Len(log)] = AssistantMessage(NothingToConfirm)

\* The preview state of a session in the sessions table ss
PreviewState(ss, session_id) ==
    IF session_id \notin DOMAIN ss THEN "idle"
    ELSE IF ss[session_id].invoice_preview_json = None THEN "idle"
    ELSE IF Get(ss[session_id].invoice_preview_json).invoice_id = None
    THEN "previewing"
    ELSE "committed"

\* The transitions of the claim, with the steps that leave the state alone
ForwardTransitions ==
    { <<"idle", "idle">>, <<"idle", "previewing">>,
      <<"previewing", "previewing">>, <<"previewing", "committed">>,
      <<"committed", "committed">> }

\* The step seals the preview of the session with the invoice of a request
Sealing(session_id) ==
    \E r \in Requests :
       /\ requests[r].pc = "committed"
       /\ requests[r].session = session_id
       /\ requests'[r].pc = "idle"
       /\ sessions'[session_id].invoice_preview_json =
            Some(SealedPreview(Get(requests[r].preview),
                               Get(requests[r].invoice)))

\* C12: the preview state of a session moves forward along idle,
\* previewing, committed, or from committed back to previewing when a new
\* preview is stored; it never returns to idle; chat and confirmations
\* make it committed only by sealing the preview (set-preview-data stores
\* what it is sent); a preview that chat stores is the
\* one the builder produced, whole; and a confirmation in committed leaves
\* the session as it is.
C12_PreviewTransitions ==
    [][\A session_id \in SessionIds :
         LET before == PreviewState(sessions, session_id)
             after  == PreviewState(sessions', session_id)
         IN  /\ <<before, after>>
                  \in ForwardTransitions \cup {<<"committed", "previewing">>}
             /\ before # "committed" /\ after = "committed"
                  => \/ before = "previewing" /\ Sealing(session_id)
                     \/ \E preview \in ClientPreviews :
                           set_preview_data(session_id, preview)
             /\ \A content \in Contents \ ConfirmationContents,
                   extraction \in {e \in Extractions : e.status = "ready"} :
                   /\ chat(session_id, content, extraction)
                   /\ resp'.status = "preview"
                   => LET invoice_data == Get(extraction.invoice_data)
                          client == Get(ResolvedClients[
                                          Strip(invoice_data.client_name)])
                      IN  sessions'[resp'.session_id].invoice_preview_json
                            = Some(_build_invoice_preview(
                                       invoice_data, clients[client],
                                       invoices))
             /\ before = "committed" /\ confirm_invoice(session_id)
                  => sessions' = sessions]_vars

\* A session whose preview was sealed with an invoice holds a fresh,
\* unsealed preview that chat has just answered with
C12_Witness ==
    \E session_id \in DOMAIN sessions, inv \in invoices :
       /\ PreviewState(sessions, session_id) = "previewing"
       /\ resp.status = "preview"
       /\ resp.session_id = session_id
       /\ inv.session_id = Some(session_id)
       /\ \E i \in 1..Len(messages[session_id]) :
             messages[session_id][i]
               = AssistantMessage(
                     <<"Invoice ">> \o inv.invoice_number
                       \o <<" created successfully! PDF is ready for download.">>)

\* C12 as stated: a chat message moves the preview state of its session
\* only from idle to previewing, within previewing, or not at all.
C12_OnlyForwardTransitions ==
    [][\A session_id \in SessionIds,
          content \in Contents \ ConfirmationContents,
          extraction \in {e \in Extractions : e.status = "ready"} :
         chat(session_id, content, extraction)
         => <<PreviewState(sessions, session_id),
              PreviewState(sessions', session_id)>>
              \in ForwardTransitions]_vars

\* The steps of client resolution: 1 the names are equal, 2 one name is
\* within the other, 3 the same on the names without their legal-entity
\* suffix; all ignoring case.  either tells whether step 2 also takes a
\* client whose name is within the input
MatchesAt(step, input, name, either) ==
    LET a == Lower(input)
        b == Lower(name)
        na == Lower(_normalize_client_name(input))
        nb == Lower(_normalize_client_name(name))
    IN  CASE step = 1 -> a = b
          [] step = 2 -> Contains(b, a) \/ (either /\ Contains(a, b))
          [] step = 3 -> na = nb \/ Contains(nb, na) \/ Contains(na, nb)

\* found is the first row, in storage order, of the first step that any
\* row matches, and none when no step has a match
ResolvesTo(found, input, roster, order, either) ==
    LET rows == 1..Len(order)
        Hit(step, i) == MatchesAt(step, input, roster[order[i]].name, either)
    IN  \/ /\ found = None
           /\ \A step \in 1..3, i \in rows : ~Hit(step, i)
        \/ \E step \in 1..3, i \in rows :
              /\ found = Some(order[i])
              /\ Hit(step, i)
              /\ \A j \in 1..(i - 1) : ~Hit(step, j)
              /\ \A earlier \in 1..(step - 1), j \in rows : ~Hit(earlier, j)

\* The client the last chat request resolved, read off its response
Resolved ==
    IF resp.status = "preview"
    THEN Some(Get(sessions[resp.session_id].invoice_preview_json).client_id)
    ELSE None

\* The requests whose name resolution reads: a ready draft with a name
ResolvingChat(session_id, extraction) ==
    /\ chat(session_id, Bill, extraction)
    /\ Strip(Get(extraction.invoice_data).client_name) # <<>>

\* C13 (as the code has it): for every roster and every name, a chat
\* request resolves the client of the first step that matches, where step 1
\* is equality ignoring case, step 2 is the input within a client name
\* (not a client name within the input), and step 3 is equality or
\* containment either way of the names without their legal-entity suffix;
\* within a step the first row in storage order wins, and no match at any
\* step gives client_not_found.  In the roster [Spectrio, Code School]
\* 'spectrio llc' resolves to Spectrio and 'Acme' to none.
C13_ResolutionOrder ==
    [][\A session_id \in SessionIds, extraction \in ResolveExtractions :
          ResolvingChat(session_id, extraction) =>
              LET input == Strip(Get(extraction.invoice_data).client_name)
              IN  /\ resp'.status \in {"preview", "client_not_found"}
                  /\ ResolvesTo(Resolved', input, clients, ClientOrder, FALSE)
                  /\ NamesOf(clients) = <<Spectrio, CodeSchool>> =>
                        /\ input = SpectrioLLC => Resolved' = Some("c1")
                        /\ input = Acme => Resolved' = None]_vars

\* A name that holds the name of the first client and is within the name
\* of the second has resolved to the second
C13_Witness ==
    /\ NamesOf(clients)[1] = Acme
    /\ resp.status = "preview"
    /\ Resolved = Some("c2")
    /\ \E s \in DOMAIN sessions :
          sessions[s].title = <<"Invoice: ">> \o NamesOf(clients)[2]

\* C13 (as stated): step 2 takes a substring match in either direction
C13_SubstringEitherWay ==
    [][\A session_id \in SessionIds, extraction \in ResolveExtractions :
          ResolvingChat(session_id, extraction) =>
              ResolvesTo(Resolved',
                         Strip(Get(extraction.invoice_data).client_name),
                         clients, ClientOrder, TRUE)]_vars


\* C14: when the name of a ready draft resolves to no client, the response
\* has status client_not_found and suggests a client of the requested name
\* (trimmed) and the draft's invoice type, hourly when the draft has none;
\* the reply carries no preview, the session keeps its preview, title and
\* client link, and the clients and invoices tables are unchanged.
C14_ClientNotFound ==
    [][\A session_id \in SessionIds, extraction \in ResolveExtractions :
          LET invoice_data == Get(extraction.invoice_data)
              client_name == Strip(invoice_data.client_name)
              s == resp'.session_id
          IN  (/\ chat(session_id, Bill, extraction)
               /\ ~ResolvesTo(Some("c1"), client_name, clients, ClientOrder, FALSE)
               /\ ~ResolvesTo(Some("c2"), client_name, clients, ClientOrder, FALSE))
              => /\ resp'.status = "client_not_found"
                 /\ resp'.suggested_client =
                      Some([name |-> client_name,
                            template_type |->
                                IF invoice_data.invoice_type = None
                                THEN "hourly"
                                ELSE Get(invoice_data.invoice_type)])
                 /\ ~messages'[s][Len(messages'[s])].has_preview
                 /\ sessions'[s] = IF s \in DOMAIN sessions THEN sessions[s]
                                   ELSE NewSession
                 /\ \A other \in DOMAIN sessions : sessions'[other] = sessions[other]
                 /\ clients' = clients
                 /\ invoices' = invoices /\ nextId' = nextId]_vars

\* A session that holds a preview was asked for a project invoice of an
\* unknown client
C14_Witness ==
    /\ resp.status = "client_not_found"
    /\ resp.suggested_client # None
    /\ Get(resp.suggested_client).template_type = "project"
    /\ resp.session_id \in DOMAIN sessions
    /\ sessions[resp.session_id].invoice_preview_json # None


\* The well-formed results: a JSON object, as it stands or between the
\* first { and the last }, whose status is ready or clarification_needed
WellFormed(content) ==
    /\ content # None
    /\ LET text == Get(content)
           start == Find(text, "{")
           end == RFind(text, "}")
           Result(value) ==
               /\ value.type = "dict"
               /\ value.status \in {Some("ready"), Some("clarification_needed")}
       IN  \/ Result(json_loads(text))
           \/ /\ json_loads(text).type = "JSONDecodeError"
              /\ start # 0 /\ end > start
              /\ Result(json_loads(SubSeq(text, start, end)))

\* C15: every response of the oracle that is no well-formed result (prose,
\* a brace fragment that does not parse, an empty or missing content, JSON
\* that is no object, an object of another status) ends the chat request
\* with a clarification_needed response whose message is the raw text, and
\* never in an unhandled exception.
C15_MalformedDegradesToClarification ==
    [][\A session_id \in SessionIds, content \in OracleResponses :
          (/\ chat(session_id, Bill, extract_invoice_data(content))
           /\ ~WellFormed(content))
          => /\ resp'.status # "unhandled"
             /\ resp'.status = "clarification_needed"
             /\ resp'.message = GetOr(content, <<>>)]_vars


\* The statuses of a failure shown to the user
FailureStatuses == {"error", "client_not_found", "unhandled"}

\* A step that ends a chat or confirmation request
RequestEnds ==
    \/ \E session_id \in SessionIds, extraction \in Extractions,
          content \in Contents \ ConfirmationContents :
          chat(session_id, content, extraction)
    \/ \E r \in Requests :
          create_invoice_from_preview(r) /\ requests'[r] = IdleRequest
    \/ \E r \in Requests, outcome \in Outcomes :
          _confirm_invoice_render(r, outcome)

\* C16: every chat or confirmation request that ends in a failure shown to
\* the user has appended an assistant message carrying the failure text to
\* the message list of its session.
C16_FailuresAreRecorded ==
    [][(RequestEnds /\ resp'.status \in FailureStatuses)
       => LET s == resp'.session_id
              last == messages'[s][Len(messages'[s])]
          IN  /\ Len(messages'[s]) > Len(messages[s])
              /\ last.role = "assistant"
              /\ resp'.status # "unhandled" => last.content = resp'.message]_vars


\* C17: PDF retrieval changes no field of an invoice whose stored PDF file
\* exists; without a file it renders one, stores its path and moves the
\* status from draft to generated, and leaves the status of a sent or paid
\* invoice as it is; a retrieval of an invoice that a retrieval has just
\* rendered changes nothing.
C17_PdfRetrievalIdempotent ==
    [][\A invoice_id \in 1..MaxInvoices, exists \in BOOLEAN :
          (/\ get_invoice_pdf(invoice_id, exists, "ok")
           /\ \E inv \in invoices : inv.id = invoice_id)
          => LET before == CHOOSE inv \in invoices : inv.id = invoice_id
                 after == CHOOSE inv \in invoices' : inv.id = invoice_id
                 path == Some(PdfPath(before.invoice_number))
             IN  /\ (before.pdf_path # None /\ exists) => invoices' = invoices
                 /\ (before.pdf_path = path /\ before.status = "generated")
                       => invoices' = invoices
                 /\ ~(before.pdf_path # None /\ exists)
                       => /\ after.pdf_path = path
                          /\ before.status = "draft"
                                => after.status = "generated"
                          /\ before.status \in {"sent", "paid"}
                                => after.status = before.status
                          /\ invoices' \ {after} = invoices \ {before}]_vars


\* C18: in every reachable state no two Client rows have names that are
\* equal ignoring case.
C18_NamesUniqueIgnoringCase ==
    \A a, b \in DOMAIN clients :
        a # b => Lower(clients[a].name) # Lower(clients[b].name)


\* The Hours Entry and Line Item rows of an invoice carry the values of the
\* entries and items of a preview, one row each, in their order
Verbatim(invoice, preview) ==
    /\ Len(invoice.hours_entries) = Len(preview.hours_entries)
    /\ \A i \in 1..Len(preview.hours_entries) :
          /\ invoice.hours_entries[i].hours = preview.hours_entries[i].hours
          /\ invoice.hours_entries[i].rate = preview.hours_entries[i].rate
    /\ Len(invoice.line_items) = Len(preview.line_items)
    /\ \A i \in 1..Len(preview.line_items) :
          /\ invoice.line_items[i].quantity = preview.line_items[i].quantity
          /\ invoice.line_items[i].rate = preview.line_items[i].rate
          /\ invoice.line_items[i].amount = preview.line_items[i].amount

Billed(preview, draft, client) ==
    LET type == IF draft.invoice_type = None THEN client.template_type
                ELSE Get(draft.invoice_type)
        entries == preview.hours_entries
        items == preview.line_items
        Total(amounts) == Sum(amounts)
    IN  /\ type = "hourly" =>
              /\ items = <<>>
              /\ Len(entries) = Len(draft.hours_entries)
              /\ \A i \in 1..Len(entries) :
                    /\ entries[i].hours = draft.hours_entries[i].hours
                    /\ entries[i].rate =
                         IF draft.hours_entries[i].rate = None
                         THEN client.default_rate
                         ELSE Get(draft.hours_entries[i].rate)
                    /\ entries[i].amount = entries[i].hours * entries[i].rate
              /\ preview.total_amount =
                   Total([i \in 1..Len(entries) |-> entries[i].amount])
        /\ type \in {"tuition", "project"} =>
              /\ entries = <<>>
              /\ Len(items) = Len(draft.line_items)
              /\ \A i \in 1..Len(items) :
                    /\ items[i].quantity =
                         IF draft.line_items[i].quantity = None THEN 1
                         ELSE Get(draft.line_items[i].quantity)
                    /\ items[i].rate = draft.line_items[i].rate
                    /\ items[i].amount = items[i].quantity * items[i].rate
              /\ preview.total_amount =
                   Total([i \in 1..Len(items) |-> items[i].amount])

\* C20: the preview of an hourly draft has hours entries only, each of
\* amount hours * rate with the client's default rate for an entry without
\* a rate, and their sum as its total; the preview of a tuition or project
\* draft has line items only, each of amount quantity * rate with quantity
\* 1 when absent, and their sum as its total.  Entries of 8 h at 100 and
\* 4 h at 100 give the total 1200.
C20_PreviewAmounts ==
    [][\A session_id \in SessionIds, extraction \in ResolveExtractions :
          (chat(session_id, Bill, extraction) /\ resp'.status = "preview")
          => LET draft == Get(extraction.invoice_data)
                 preview ==
                     Get(sessions'[resp'.session_id].invoice_preview_json)
                 last ==
                     messages'[resp'.session_id]
                              [Len(messages'[resp'.session_id])]
             IN  /\ preview.invoice_type \in {"hourly", "tuition", "project"}
                 /\ Billed(preview, draft, clients[preview.client_id])
                 /\ last.preview_json = Some(preview)
                 /\ (/\ draft.hours_entries =
                          <<[hours |-> 8, rate |-> Some(100)],
                            [hours |-> 4, rate |-> None]>>
                     /\ clients[preview.client_id].default_rate = 100
                     /\ preview.invoice_type = "hourly")
                    => preview.total_amount = 1200]_vars

\* The preview of a session bills 8 h and 4 h at 100, the second at the
\* default rate of the client, and totals 1200
C20_Witness ==
    \E s \in DOMAIN sessions :
       /\ sessions[s].invoice_preview_json # None
       /\ LET preview == Get(sessions[s].invoice_preview_json)
          IN  /\ Len(preview.hours_entries) = 2
              /\ preview.hours_entries[1].amount = 800
              /\ preview.hours_entries[2].amount = 400
              /\ preview.line_items = <<>>
              /\ preview.total_amount = 1200


\* The message that (message_session, i) names, when it is a message of
\* session_id that carries a snapshot
Snapshot(session_id, message_session, i) ==
    IF /\ session_id \in DOMAIN sessions
       /\ message_session = session_id
       /\ i <= Len(messages[session_id])
       /\ messages[session_id][i].has_preview
       /\ messages[session_id][i].preview_json # None
    THEN messages[session_id][i].preview_json
    ELSE None

\* C21: the preview snapshot of a chat message is never modified after the
\* message is created, not either when a confirmation seals the current
\* preview of the session; set-preview(session, message) makes the current
\* preview of the session equal to the snapshot of the message when the
\* message belongs to the session and has a snapshot, and otherwise fails
\* with not-found and changes no session's preview.
C21_SnapshotsAreFrozen ==
    [][/\ \A s \in SessionIds :
            /\ Len(messages'[s]) >= Len(messages[s])
            /\ \A i \in 1..Len(messages[s]) :
                  /\ messages'[s][i].has_preview = messages[s][i].has_preview
                  /\ messages'[s][i].preview_json
                       = messages[s][i].preview_json
       /\ \A session_id \in SessionIds \cup {"s0"},
             message_session \in SessionIds, i \in 1..MaxMessages :
             set_preview_version(session_id, message_session, i)
             => IF Snapshot(session_id, message_session, i) # None
                THEN /\ sessions'[session_id].invoice_preview_json
                          = Snapshot(session_id, message_session, i)
                     /\ \A s \in DOMAIN sessions \ {session_id} :
                           sessions'[s] = sessions[s]
                     /\ resp'.status = "200"
                ELSE /\ resp'.status = "404"
                     /\ sessions' = sessions]_vars

\* A session is sealed, the snapshot of its message is still the unsealed
\* preview, and a promotion has been refused
C21_Witness ==
    /\ resp.status = "404"
    /\ \E s \in DOMAIN sessions :
          /\ Sealed(s)
          /\ \E i \in 1..Len(messages[s]) :
                /\ messages[s][i].preview_json # None
                /\ Get(messages[s][i].preview_json).invoice_id = None
                /\ Get(messages[s][i].preview_json).invoice_number
                     = Get(sessions[s].invoice_preview_json).invoice_number


\* C22: the image upload answers 503 whenever a credential or the bucket
\* is absent, whatever the file; with the storage configured it answers 400
\* to a content type outside the allow-list and to a payload larger than
\* 10 MB without calling the storage service, and it reports a failure of
\* the storage call as an upload failure with 500.
C22_UploadErrors ==
    [][\A file \in Files, outcome \in S3Outcomes :
          upload_image(file, outcome)
          => LET absent ==
                     \E setting \in {s3.aws_access_key_id,
                                      s3.aws_secret_access_key,
                                      s3.aws_s3_bucket} :
                        setting \in {None, Some("")}
                 listed == \E t \in allowed_types :
                              file.content_type = Some(t)
                 large == file.size > 10485760
             IN  /\ absent => resp'.status = "503" /\ s3' = s3
                 /\ (~absent /\ (~listed \/ large))
                      => resp'.status = "400" /\ s3' = s3
                 /\ (~absent /\ listed /\ ~large /\ outcome # "ok")
                      => /\ resp'.status = "500"
                         /\ resp'.message[1] = "Failed to upload image: "
                         /\ Len(s3'.calls) = Len(s3.calls) + 1
                 /\ resp'.status = "200"
                      => ~absent /\ listed /\ ~large /\ outcome = "ok"]_vars

\* The storage is configured, one call of it failed, and a file of more
\* than 10 MB was refused after it
C22_Witness ==
    /\ \A setting \in {s3.aws_access_key_id, s3.aws_secret_access_key,
                        s3.aws_s3_bucket} : setting = Some("set")
    /\ Len(s3.calls) = 1
    /\ resp.status = "400"
    /\ resp.message = <<"File too large. Maximum size is 10MB.">>


\* The sequence an invoice number carries after its stem: the digits up to
\* the version suffix, however many they are
RECURSIVE LeadingDigits(_)
LeadingDigits(s) ==
    IF Len(s) = 0 \/ ~IsDigit(s[1]) THEN <<>>
    ELSE <<s[1]>> \o LeadingDigits(Tail(s))

\* C23: for a client without a manual counter the generated sequence is
\* 1 + the maximum, over the invoices of the client whose number matches
\* PREFIX-YEAR-%, of the numeric sequence of the number (a version suffix
\* ignored), and 1 when there is none, whatever the number of digits of the
\* sequences and whatever suffix the collision guard appended.
C23_NextSequenceIsMaxPlusOne ==
    [][\A session_id \in SessionIds, extraction \in SequenceExtractions :
          (chat(session_id, Bill, extraction) /\ resp'.status = "preview")
          => LET preview ==
                     Get(sessions'[resp'.session_id].invoice_preview_json)
                 client == clients[preview.client_id]
                 stem == NumberStem(client.invoice_prefix, Today)
                 sequences ==
                     {ParseInt(LeadingDigits(
                          SubSeq(inv.invoice_number, Len(stem) + 1,
                                 Len(inv.invoice_number)))) :
                        inv \in {i \in invoices :
                                   /\ i.client_id = client.id
                                   /\ StartsWith(i.invoice_number, stem)}}
             IN  client.next_invoice_number = None
                 => preview.invoice_number
                      = stem \o Pad3(Max(sequences \cup {0}) + 1)]_vars


C25_PersistedInvoiceIsSealed ==
    [][\A r \in Requests, outcome \in Outcomes :
          (/\ _confirm_invoice_render(r, outcome)
           /\ \E inv \in invoices' : inv.id = Get(requests[r].invoice).id)
          => LET current == sessions'[requests[r].session].invoice_preview_json
             IN  /\ current # None
                 /\ Get(current).invoice_id
                      = Some(Get(requests[r].invoice).id)]_vars


\* C26: two confirmation requests of one session that run concurrently
\* against the same unsealed preview create at most one Invoice row between
\* them, under every interleaving of their steps.  (Each session holds one
\* preview here and every confirmation that ends has sealed it, so two rows
\* of one session come from two overlapping requests.)
C26_OneInvoicePerPreview ==
    \A a \in invoices, b \in invoices :
       (a.session_id # None /\ a.session_id = b.session_id) => a = b


\* The last message of a session reports that the invoice was created
CreatedLast(session_id, invoice) ==
    /\ Len(messages[session_id]) > 0
    /\ messages[session_id][Len(messages[session_id])]
         = AssistantMessage(
               <<"Invoice ">> \o invoice.invoice_number
                 \o <<" created successfully! PDF is ready for download.">>)

\* A confirmation of session_id, by the endpoint or by a phrase in the chat
Confirming(session_id) ==
    \/ confirm_invoice(session_id)
    \/ \E content \in ConfirmationContents, extraction \in Extractions :
          chat(session_id, content, extraction)

\* C27 as amended: the snapshot of a message is never sealed, so promoting
\* it leaves the session with an unsealed current preview, also when an
\* invoice was committed from that snapshot before; a confirmation of an
\* unsealed current preview answers with no existing invoice but starts a
\* request that carries that preview, and each commit of such a request
\* adds one Invoice row to the ledger.
C27_PromotionReopensPreview ==
    [][/\ \A session_id \in SessionIds, message_session \in SessionIds,
             i \in 1..MaxMessages :
             (/\ set_preview_version(session_id, message_session, i)
              /\ resp'.status = "200")
             => /\ ~Sealed(session_id)'
                /\ sessions'[session_id].invoice_preview_json
                     = messages[session_id][i].preview_json
       /\ \A session_id \in SessionIds :
             (/\ session_id \in DOMAIN sessions
              /\ sessions[session_id].invoice_preview_json # None
              /\ ~Sealed(session_id)
              /\ Confirming(session_id))
             => /\ resp' = resp
                /\ \E r \in Requests :
                      /\ requests[r].pc = "idle"
                      /\ requests'[r].pc = "checked"
                      /\ requests'[r].session = session_id
                      /\ requests'[r].preview
                           = sessions[session_id].invoice_preview_json
       /\ \A r \in Requests :
             db_commit(r)
             => \E row \in invoices' :
                   /\ row \notin invoices
                   /\ invoices' = invoices \cup {row}
                   /\ row.session_id = Some(requests[r].session)
                   /\ Verbatim(row, Get(requests[r].preview))]_vars

\* Two invoices of one session carry the entries of the snapshot of its
\* second message, the later one under the number of the former and the
\* letter a; the session was sealed with the former and is sealed with the
\* later one
C27_Witness ==
    \E s \in DOMAIN sessions, a \in invoices, b \in invoices :
       /\ Len(messages[s]) >= 2
       /\ messages[s][2].preview_json # None
       /\ a.session_id = Some(s)
       /\ b.session_id = Some(s)
       /\ Verbatim(a, Get(messages[s][2].preview_json))
       /\ Verbatim(b, Get(messages[s][2].preview_json))
       /\ a.invoice_number = Get(messages[s][2].preview_json).invoice_number
       /\ b.invoice_number = a.invoice_number \o <<"a">>
       /\ \E j \in 1..Len(messages[s]) :
             messages[s][j]
               = AssistantMessage(
                     <<"Invoice ">> \o a.invoice_number
                       \o <<" created successfully! PDF is ready for download.">>)
       /\ Sealed(s)
       /\ Get(sessions[s].invoice_preview_json).invoice_id = Some(b.id)
       /\ CreatedLast(s, b)

\* C27 as stated: a confirmation that follows the promotion of the
\* snapshot from which the session's invoice was created answers with that
\* invoice and starts no request that would create another.
C27_PromotedSnapshotCommitsOnce ==
    [][\A session_id \in SessionIds, invoice \in invoices :
          (/\ session_id \in DOMAIN sessions
           /\ sessions[session_id].invoice_preview_json # None
           /\ resp.status = "200"
           /\ resp.session_id = session_id
           /\ invoice.session_id = Some(session_id)
           /\ CreatedLast(session_id, invoice)
           /\ Verbatim(invoice, Get(sessions[session_id].invoice_preview_json))
           /\ Confirming(session_id))
          => /\ resp'.status = "invoice_created"
             /\ resp'.invoice_id = Some(invoice.id)
             /\ requests' = requests]_vars


\* C28: in every reachable state the invoice_number of a sealed session
\* preview is the invoice_number of the Invoice row that its invoice_id
\* refers to, also when the collision guard stored the invoice under a
\* suffixed number.
C28_SealedNumberIsInvoiceNumber ==
    \A s \in DOMAIN sessions, invoice \in invoices :
       (/\ Sealed(s)
        /\ Get(sessions[s].invoice_preview_json).invoice_id
             = Some(invoice.id))
       => Get(sessions[s].invoice_preview_json).invoice_number
            = invoice.invoice_number


\* C29: in every reachable state the invoice_id of a sealed session preview
\* identifies an Invoice row of the ledger, whatever deletions happened, so
\* that the short-circuit of the confirmation never answers with an invoice
\* that is gone.
C29_SealedInvoiceExists ==
    \A s \in DOMAIN sessions :
       Sealed(s)
       => \E invoice \in invoices :
             Get(sessions[s].invoice_preview_json).invoice_id
               = Some(invoice.id)


\* The number that the counter of a client in manual mode stands for
CounterNumber(client, year) ==
    NumberStem(IF client.invoice_prefix = <<>> THEN INV
               ELSE client.invoice_prefix, year)
      \o Pad3(Get(client.next_invoice_number))

====
